---- MODULE Spec2Model ----
(***************************************************************************)
(* Model of the engagement state machine of the Agentic Honeypot API:      *)
(* app/api/routes.py (session registry, analyze_message handler),          *)
(* app/core/scam_detector.py (scorer), app/core/extractor.py (extractor),  *)
(* app/core/agent.py (reply strategist, continuation decision) and         *)
(* app/services/guvi_callback.py (report dispatcher).                      *)
(*                                                                         *)
(* Texts are TLA+ strings, i.e. sequences of characters: Len, SubSeq and   *)
(* \o work on them, so the substring tests and the regular expressions of  *)
(* the source are computed character by character.                        *)
(*                                                                         *)
(* A Python list built by list(set(...)) has no specified order: such a    *)
(* list is modelled by the bag of its elements, which keeps how often each *)
(* element occurs and fixes no order.                                      *)
(***************************************************************************)
EXTENDS Integers, Sequences, FiniteSets, Bags, TLC

(***************************************************************************)
(* Characters and strings (Python str methods used by the source).         *)
(***************************************************************************)
UPPER == "ABCDEFGHIJKLMNOPQRSTUVWXYZ"
LOWER == "abcdefghijklmnopqrstuvwxyz"
DIGITS == "0123456789"

\* s[i] as a one-character string
Ch(s, i) == SubSeq(s, i, i)

\* the set of characters of string s
CharsOf(s) == { Ch(s, i) : i \in 1..Len(s) }

Letters == CharsOf(UPPER) \cup CharsOf(LOWER)
DigitChars == CharsOf(DIGITS)
\* \w of Python's re (ASCII part): letters, digits and underscore
WordChars == Letters \cup DigitChars \cup {"_"}
\* \s of Python's re (the whitespace the model's texts use)
SpaceChars == {" "}

\* upper-case letter -> lower-case letter
LowerOf == [c \in CharsOf(UPPER) |-> Ch(LOWER, CHOOSE i \in 1..Len(UPPER) : Ch(UPPER, i) = c)]

\* str.lower() of one character
LowerChar(c) == IF c \in DOMAIN LowerOf THEN LowerOf[c] ELSE c

\* str.lower(), character by character (the string is halved to keep the
\* evaluation shallow)
RECURSIVE Lower(_)
Lower(s) ==
  IF Len(s) = 0 THEN ""
  ELSE IF Len(s) = 1 THEN LowerChar(s)
  ELSE LET h == Len(s) \div 2
       IN  Lower(SubSeq(s, 1, h)) \o Lower(SubSeq(s, h + 1, Len(s)))

\* str.strip(): leading and trailing whitespace removed
Strip(s) ==
  LET keep == { i \in 1..Len(s) : Ch(s, i) \notin SpaceChars }
  IN  IF keep = {} THEN ""
      ELSE SubSeq(s, CHOOSE i \in keep : \A j \in keep : i <= j,
                     CHOOSE i \in keep : \A j \in keep : j <= i)

\* w occurs at position i of s
At(w, s, i) == i >= 1 /\ i + Len(w) - 1 <= Len(s) /\ SubSeq(s, i, i + Len(w) - 1) = w

\* Python's `w in s` for strings
Contains(w, s) == \E i \in 1..(Len(s) - Len(w) + 1) : At(w, s, i)

\* any(w in s for w in words)
AnyIn(words, s) == \E k \in 1..Len(words) : Contains(words[k], s)

\* sum(1 for w in words if w in s)
CountIn(words, s) == Cardinality({ k \in 1..Len(words) : Contains(words[k], s) })

\* x in list
InList(x, list) == \E k \in 1..Len(list) : list[k] = x

\* the elements of a list, as a set
ToSet(list) == { list[k] : k \in 1..Len(list) }

\* the length of the longest run of characters of class cls starting at s[i]
RunLen(s, i, cls) ==
  IF i < 1 \/ i > Len(s) THEN 0
  ELSE LET stops == { j \in i..Len(s) : Ch(s, j) \notin cls }
       IN  IF stops = {} THEN Len(s) - i + 1
           ELSE (CHOOSE j \in stops : \A k \in stops : j <= k) - i

Max(a, b) == IF a >= b THEN a ELSE b

(***************************************************************************)
(* Scam scorer: app/core/scam_detector.py                                  *)
(***************************************************************************)
FINANCIAL_KEYWORDS ==
  << "bank", "account", "upi", "payment", "transaction", "wallet", "credit", "debit" >>
ACTION_KEYWORDS ==
  << "send", "verify", "click", "update", "confirm", "share", "provide", "enter" >>
SENSITIVE_KEYWORDS ==
  << "otp", "pin", "password", "cvv", "secret", "code" >>
URGENCY_KEYWORDS ==
  << "urgent", "immediately", "now", "asap", "quickly", "today", "blocked",
     "suspended", "freeze" >>
THREAT_KEYWORDS ==
  << "block", "suspend", "freeze", "cancel", "close", "locked", "unauthorized" >>
ACTION_REQUEST_KEYWORDS ==
  << "click", "download", "install", "update", "renew" >>
HESITATION_MARKERS ==
  << "worried", "doubt", "safe", "hesitate", "not sure" >>

\* one match of URL_REGEX  https?://[^\s]+  starting at s[i]: its length, 0 if none
\* ([^\s]+ is greedy and nothing follows it, so the match runs to the next whitespace)
UrlMatchLen(s, i) ==
  LET p == IF At("https://", s, i) THEN 8 ELSE IF At("http://", s, i) THEN 7 ELSE 0
      n == IF p = 0 THEN 0 ELSE RunLen(s, i + p, CharsOf(s) \ SpaceChars)
  IN  IF p > 0 /\ n > 0 THEN p + n ELSE 0

\* variant: a search for  http://[^\s]+  , which no "https" link matches
HasHttpUrl(s) ==
  \E i \in 1..Len(s) : At("http://", s, i) /\ RunLen(s, i + 7, CharsOf(s) \ SpaceChars) > 0

\* re.search(URL_REGEX, s)
HasUrl(s) == \E i \in 1..Len(s) : UrlMatchLen(s, i) > 0

\* re.search(SUSPICIOUS_DOMAIN_REGEX, s):  (@[a-zA-Z0-9-]+\.[a-zA-Z]{2,})
\* the class does not hold ".", so the only run that can be followed by "." is the
\* longest one
HasSuspiciousDomain(s) ==
  \E i \in 1..Len(s) :
    /\ Ch(s, i) = "@"
    /\ LET n == RunLen(s, i + 1, Letters \cup DigitChars \cup {"-"})
       IN  /\ n >= 1
           /\ At(".", s, i + 1 + n)
           /\ RunLen(s, i + 2 + n, Letters) >= 2

\* dict.get(key, default) on a message of the conversation history
Get(m, key, default) == IF key \in DOMAIN m THEN m[key] ELSE default

\* conversation_history[-3:]
Last3(list) == SubSeq(list, Max(1, Len(list) - 2), Len(list))

\* the history messages of the last three that add the escalation bonus: sent by
\* "user", with a hesitation marker (scam_detector.py:88-89)
HesitantUserMessages(conversation_history) ==
  LET last == Last3(conversation_history)
  IN  { k \in 1..Len(last) :
          /\ Get(last[k], "sender", "none") = "user"
          /\ AnyIn(HESITATION_MARKERS, Lower(Get(last[k], "text", ""))) }

\* a list of n copies of x
RECURSIVE Repeat(_, _)
Repeat(x, n) == IF n <= 0 THEN << >> ELSE << x >> \o Repeat(x, n - 1)

\* the literal of scam_detector.py:98 (score >= 4)
ScamScoreLiteral == 4

\* detect_scam(message, conversation_history) -> (is_scam, reasons, score)
detect_scam(message, conversation_history) ==
  LET msg == Lower(message)
      financial_matches == CountIn(FINANCIAL_KEYWORDS, msg)
      action_matches == CountIn(ACTION_KEYWORDS, msg)
      sensitive_matches == CountIn(SENSITIVE_KEYWORDS, msg)
      urgency_matches == CountIn(URGENCY_KEYWORDS, msg)
      threat_matches == CountIn(THREAT_KEYWORDS, msg)
      action_request_matches == CountIn(ACTION_REQUEST_KEYWORDS, msg)
      url == HasUrl(msg)
      domain == HasSuspiciousDomain(msg)
      classic == /\ AnyIn(FINANCIAL_KEYWORDS, msg)
                 /\ AnyIn(ACTION_KEYWORDS, msg)
                 /\ AnyIn(URGENCY_KEYWORDS, msg)
      \* one bonus per hesitant user message among the last three
      escalations ==
        IF AnyIn(URGENCY_KEYWORDS \o THREAT_KEYWORDS, msg)
        THEN Cardinality(HesitantUserMessages(conversation_history))
        ELSE 0
      score == financial_matches
               + action_matches
               + sensitive_matches * 3
               + urgency_matches * 2
               + threat_matches * 2
               + (IF url THEN 3 ELSE 0)
               + (IF domain THEN 2 ELSE 0)
               + action_request_matches * 2
               + (IF classic THEN 5 ELSE 0)
               + escalations * 2
      reasons ==
        (IF financial_matches > 0 THEN << "financial context" >> ELSE << >>)
        \o (IF action_matches > 0 THEN << "action requested" >> ELSE << >>)
        \o (IF sensitive_matches > 0 THEN << "sensitive info request" >> ELSE << >>)
        \o (IF urgency_matches > 0 THEN << "urgency/threat tactics" >> ELSE << >>)
        \o (IF threat_matches > 0 /\ urgency_matches = 0
            THEN << "threat language" >> ELSE << >>)
        \o (IF url THEN << "external link detected" >> ELSE << >>)
        \o (IF domain THEN << "suspicious domain" >> ELSE << >>)
        \o (IF action_request_matches > 0
            THEN << "malicious action request" >> ELSE << >>)
        \o (IF classic THEN << "classic scam pattern detected" >> ELSE << >>)
        \o Repeat("escalation despite user hesitation", escalations)
  IN  [is_scam |-> score >= ScamScoreLiteral, reasons |-> reasons, score |-> score]

\* get_scam_details(message)
get_scam_details(message) ==
  LET msg == Lower(message)
      scam_type ==
        (IF AnyIn(<< "otp", "password", "pin", "cvv" >>, msg)
         THEN << "credential theft" >> ELSE << >>)
        \o (IF AnyIn(<< "click", "download", "link" >>, msg)
            THEN << "malware distribution" >> ELSE << >>)
        \o (IF AnyIn(<< "bank", "account", "upi", "payment" >>, msg)
            THEN << "financial fraud" >> ELSE << >>)
        \o (IF AnyIn(<< "verify", "confirm", "update" >>, msg)
            THEN << "phishing" >> ELSE << >>)
  IN  [types |-> IF scam_type = << >> THEN << "unknown scam" >> ELSE scam_type]

(***************************************************************************)
(* Intelligence extractor: app/core/extractor.py                           *)
(***************************************************************************)
SUSPICIOUS_KEYWORDS ==
  << "urgent", "verify", "blocked", "suspended", "freeze", "confirm",
     "immediate", "claim", "update", "click", "download", "authenticate",
     "password", "otp", "pin", "cvv", "secret", "validate", "activate",
     "renew", "expire", "unauthorized", "secure", "protect", "danger",
     "limited", "today", "now", "asap", "hurry", "quickly", "immediately" >>

\* s[i] exists and is a \w character
IsWord(s, i) == i >= 1 /\ i <= Len(s) /\ Ch(s, i) \in WordChars

\* \b between s[i-1] and s[i]
Boundary(s, i) == IsWord(s, i - 1) # IsWord(s, i)

\* re.findall(pattern, s): the matches left to right, each search resuming where
\* the previous match ended; MatchLen(s, i) is the length of the pattern's match
\* starting at s[i], 0 when there is none (no pattern here matches the empty string)
RECURSIVE FindAllFrom(_, _, _)
FindAllFrom(MatchLen(_, _), s, i) ==
  LET starts == { j \in i..Len(s) : MatchLen(s, j) > 0 }
  IN  IF starts = {} THEN << >>
      ELSE LET j == CHOOSE a \in starts : \A b \in starts : a <= b
               n == MatchLen(s, j)
           IN  << SubSeq(s, j, j + n - 1) >> \o FindAllFrom(MatchLen, s, j + n)

FindAll(MatchLen(_, _), s) == FindAllFrom(MatchLen, s, 1)

\* UPI_REGEX  \b[\w.\-]{2,}@[a-zA-Z]{2,}\b  (re.IGNORECASE)
\* neither class holds the character that must follow it, and a shorter run of
\* letters ends between two letters, where there is no \b: both runs are the longest
UpiMatchLen(s, i) ==
  LET n == RunLen(s, i, WordChars \cup {".", "-"})
      m == RunLen(s, i + n + 1, Letters)
  IN  IF /\ Boundary(s, i)
         /\ n >= 2
         /\ At("@", s, i + n)
         /\ m >= 2
         /\ Boundary(s, i + n + 1 + m)
      THEN n + 1 + m ELSE 0

\* the rest of PHONE_REGEX after its optional prefix:  \s*[6-9]\d{9}
PhoneRestLen(s, j) ==
  LET k == RunLen(s, j, SpaceChars)
  IN  IF /\ j + k <= Len(s)
         /\ Ch(s, j + k) \in {"6", "7", "8", "9"}
         /\ RunLen(s, j + k + 1, DigitChars) >= 9
      THEN k + 10 ELSE 0

\* PHONE_REGEX  (?:\+91|91|0)?\s*[6-9]\d{9} : the prefixes are tried in the
\* order written, then no prefix
PhoneMatchLen(s, i) ==
  IF At("+91", s, i) /\ PhoneRestLen(s, i + 3) > 0 THEN 3 + PhoneRestLen(s, i + 3)
  ELSE IF At("91", s, i) /\ PhoneRestLen(s, i + 2) > 0 THEN 2 + PhoneRestLen(s, i + 2)
  ELSE IF At("0", s, i) /\ PhoneRestLen(s, i + 1) > 0 THEN 1 + PhoneRestLen(s, i + 1)
  ELSE PhoneRestLen(s, i)

\* BANK_ACCOUNT_REGEX  \b\d{9,18}\b : a whole run of 9 to 18 digits
BankMatchLen(s, i) ==
  LET n == RunLen(s, i, DigitChars)
  IN  IF Boundary(s, i) /\ n >= 9 /\ n <= 18 /\ Boundary(s, i + n) THEN n ELSE 0

\* the characters of [A-Za-z0-9._%+-], [A-Za-z0-9.-] and [A-Z|a-z] of EMAIL_REGEX
EmailLocalChars == Letters \cup DigitChars \cup {".", "_", "%", "+", "-"}
EmailDomainChars == Letters \cup DigitChars \cup {".", "-"}
EmailTldChars == Letters \cup {"|"}

\* the length of [A-Z|a-z]{2,}\b at s[p]: the longest run prefix that ends at a \b
EmailTldLen(s, p) ==
  LET t == RunLen(s, p, EmailTldChars)
      ok == { u \in 2..t : Boundary(s, p + u) }
  IN  IF ok = {} THEN 0 ELSE CHOOSE u \in ok : \A v \in ok : v <= u

\* EMAIL_REGEX  \b[A-Za-z0-9._%+-]+@[A-Za-z0-9.-]+\.[A-Z|a-z]{2,}\b
\* the domain run is greedy and gives characters back until a "." with a
\* top-level part follows
EmailMatchLen(s, i) ==
  LET n == RunLen(s, i, EmailLocalChars)
      j == i + n + 1
      dmax == RunLen(s, j, EmailDomainChars)
      ok == { d \in 1..dmax : At(".", s, j + d) /\ EmailTldLen(s, j + d + 1) > 0 }
      d == CHOOSE e \in ok : \A f \in ok : f <= e
  IN  IF Boundary(s, i) /\ n >= 1 /\ At("@", s, i + n) /\ ok # {}
      THEN n + 1 + d + 1 + EmailTldLen(s, j + d + 1) ELSE 0

\* the characters of [a-km-zA-HJ-NP-Z1-9] of BITCOIN_REGEX
BitcoinChars == (Letters \cup DigitChars) \ {"l", "I", "O", "0"}

\* BITCOIN_REGEX  \b[13][a-km-zA-HJ-NP-Z1-9]{25,34}\b
BitcoinMatchLen(s, i) ==
  LET n == RunLen(s, i + 1, BitcoinChars)
  IN  IF /\ Boundary(s, i)
         /\ (At("1", s, i) \/ At("3", s, i))
         /\ n >= 25 /\ n <= 34
         /\ Boundary(s, i + 1 + n)
      THEN 1 + n ELSE 0

\* (?:\d{1,3}\.) at s[p]: its length, 0 if none
IpGroupLen(s, p) ==
  LET n == RunLen(s, p, DigitChars)
  IN  IF n >= 1 /\ n <= 3 /\ At(".", s, p + n) THEN n + 1 ELSE 0

\* IP_ADDRESS_REGEX  \b(?:\d{1,3}\.){3}\d{1,3}\b
IpMatchLen(s, i) ==
  LET g1 == IpGroupLen(s, i)
      g2 == IpGroupLen(s, i + g1)
      g3 == IpGroupLen(s, i + g1 + g2)
      n == RunLen(s, i + g1 + g2 + g3, DigitChars)
  IN  IF /\ Boundary(s, i)
         /\ g1 > 0 /\ g2 > 0 /\ g3 > 0
         /\ n >= 1 /\ n <= 3
         /\ Boundary(s, i + g1 + g2 + g3 + n)
      THEN g1 + g2 + g3 + n ELSE 0

\* a digit string without its leading zeros
StripZeros(d) == SubSeq(d, RunLen(d, 1, {"0"}) + 1, Len(d))

\* int(number_str) > 1000000000, on the digits (the values exceed TLC's integers):
\* more than 10 significant digits, or 10 of them other than 1000000000
GreaterThanBillion(number_str) ==
  LET d == StripZeros(number_str)
  IN  Len(d) > 10 \/ (Len(d) = 10 /\ d # "1000000000")

\* variant: the value is compared whatever the length of number_str
timestamp_of_any_length(number_str) == GreaterThanBillion(number_str)

\* is_likely_timestamp(number_str)
is_likely_timestamp(number_str) ==
  IF Len(number_str) > 13 THEN FALSE ELSE GreaterThanBillion(number_str)

\* [x for x in list if Keep(x)]
RECURSIVE Filter(_, _)
Filter(Keep(_), list) ==
  IF list = << >> THEN << >>
  ELSE (IF Keep(Head(list)) THEN << Head(list) >> ELSE << >>) \o Filter(Keep, Tail(list))

\* variant of list_set: list(values), nothing removed
list_all(values) == values

\* list(set(values)), for a list given as the bag of its elements: every element
\* once (set() keeps one of equal elements, list() enumerates them in no fixed order)
list_set(values) == SetToBag(BagToSet(values))

\* the bag of the elements of a list
BagOf(list) == [x \in ToSet(list) |-> Cardinality({ k \in 1..Len(list) : list[k] = x })]

\* [F(x) for x in list]
Map(F(_), list) == [k \in 1..Len(list) |-> F(list[k])]

\* the eight categories of a bundle (extractor.py:62-71, routes.py:59-68)
Categories ==
  { "bankAccounts", "upiIds", "phishingLinks", "phoneNumbers",
    "suspiciousKeywords", "emailAddresses", "bitcoinAddresses", "ipAddresses" }

\* clean_intelligence(intel_dict): per key, the values lower-cased and stripped,
\* empty ones dropped, every value once
clean_intelligence(intel_dict) ==
  LET Norm(v) == Strip(Lower(v))
      NonEmpty(v) == v # ""
      unique_values(values) == list_set(BagOf(Map(Norm, Filter(NonEmpty, values))))
  IN  [key \in DOMAIN intel_dict |->
         SetToBag({ v \in BagToSet(unique_values(intel_dict[key])) : NonEmpty(v) })]

\* the matches the loop over full_conversation adds for one pattern
\* (extractor.py:122-128)
RECURSIVE ConversationMatches(_, _)
ConversationMatches(MatchLen(_, _), full_conversation) ==
  IF full_conversation = << >> THEN << >>
  ELSE FindAll(MatchLen, Get(Head(full_conversation), "text", ""))
       \o ConversationMatches(MatchLen, Tail(full_conversation))

TRUSTED_EMAIL_DOMAINS == << "@gmail.com", "@yahoo.com", "@outlook.com" >>

\* extract_intelligence(text, full_conversation)
extract_intelligence(text, full_conversation) ==
  LET NotTimestamp(acc) == Len(acc) >= 9 /\ Len(acc) <= 18 /\ ~is_likely_timestamp(acc)
      Suspicious(e) == \/ ~AnyIn(TRUSTED_EMAIL_DOMAINS, Lower(e))
                       \/ AnyIn(SUSPICIOUS_KEYWORDS, Lower(text))
      InText(kw) == Contains(kw, Lower(text))
      intelligence ==
        [bankAccounts |-> Filter(NotTimestamp, FindAll(BankMatchLen, text)),
         upiIds |-> FindAll(UpiMatchLen, text)
                    \o ConversationMatches(UpiMatchLen, full_conversation),
         phishingLinks |-> FindAll(UrlMatchLen, text)
                           \o ConversationMatches(UrlMatchLen, full_conversation),
         phoneNumbers |-> FindAll(PhoneMatchLen, text)
                          \o ConversationMatches(PhoneMatchLen, full_conversation),
         suspiciousKeywords |-> Filter(InText, SUSPICIOUS_KEYWORDS),
         emailAddresses |-> Filter(Suspicious, FindAll(EmailMatchLen, text))
                            \o ConversationMatches(EmailMatchLen, full_conversation),
         bitcoinAddresses |-> FindAll(BitcoinMatchLen, text),
         ipAddresses |-> FindAll(IpMatchLen, text)]
  IN  clean_intelligence(intelligence)

(***************************************************************************)
(* Reply strategist and continuation decision: app/core/agent.py           *)
(***************************************************************************)
\* the keys of RESPONSE_TEMPLATES / of the context dictionary, in declaration order
CategoryOrder ==
  << "upi", "otp", "password", "cvv", "link", "download", "verify",
     "account_blocked", "urgent" >>

RESPONSE_TEMPLATES ==
  [upi |-> << "I'm not sure what UPI is, can you explain?",
              "Is it safe to share my UPI ID? I'm worried about security.",
              "Can you tell me why you need my UPI ID?" >>,
   otp |-> << "Is it safe to share OTP? What will you use it for?",
              "Why do you need my OTP? I've heard it's dangerous.",
              "Can someone misuse my OTP if I share it?" >>,
   password |-> << "Should I really share my password? That sounds risky.",
                   "Why do you need access to my account password?",
                   "I don't think it's safe to share passwords. Right?" >>,
   cvv |-> << "You're asking for my CVV? That's the security code, right?",
              "Is it safe to share CVV over message? I'm concerned.",
              "Why would you need my CVV to verify my account?" >>,
   link |-> << "Can you explain what this link is for?",
               "Is this link safe to click? Where does it take me?",
               "Why should I click on this? What happens next?" >>,
   download |-> << "Is it safe to download that? What does it do?",
                   "Why do I need to download an app to verify my account?",
                   "Can you explain what this download is for?" >>,
   verify |-> << "How will the verification process work?",
                 "What happens after I verify? Is my account safe?",
                 "Can you explain this verification process?" >>,
   account_blocked |-> << "Why is my account blocked? What did I do?",
                          "When will my account be unblocked? How long does it take?",
                          "Is there another way to resolve this without verification?" >>,
   urgent |-> << "Why is this so urgent? What happens if I don't act now?",
                 "How much time do I have to respond?",
                 "Is this really an emergency? Can it wait?" >>,
   default |-> << "Can you explain that more clearly?",
                  "I didn't understand. Can you rephrase?",
                  "What exactly are you asking me to do?",
                  "Can you provide more details?",
                  "I'm confused about this. Help me understand." >>]

\* analyze_message_context(message, conversation_history)
analyze_message_context(message) ==
  LET msg_lower == Lower(message)
  IN  [upi |-> Contains("upi", msg_lower),
       otp |-> Contains("otp", msg_lower),
       password |-> Contains("password", msg_lower),
       cvv |-> Contains("cvv", msg_lower),
       link |-> AnyIn(<< "link", "click", "http" >>, msg_lower),
       download |-> AnyIn(<< "download", "install" >>, msg_lower),
       verify |-> Contains("verify", msg_lower),
       account_blocked |-> AnyIn(<< "block", "suspended", "locked", "freeze" >>, msg_lower),
       urgent |-> AnyIn(<< "urgent", "immediately", "now", "asap", "today" >>, msg_lower)]

\* variant of reply_category: the last category detected wins
last_detected_category(current_message) ==
  LET context == analyze_message_context(current_message)
      detected == { k \in 1..Len(CategoryOrder) : context[CategoryOrder[k]] }
  IN  IF detected = {} THEN "default"
      ELSE CategoryOrder[CHOOSE k \in detected : \A j \in detected : j <= k]

\* the category get_agent_reply settles on (agent.py:114-118)
reply_category(current_message) ==
  LET context == analyze_message_context(current_message)
      detected == { k \in 1..Len(CategoryOrder) : context[CategoryOrder[k]] }
  IN  IF detected = {} THEN "default"
      ELSE CategoryOrder[CHOOSE k \in detected : \A j \in detected : k <= j]

\* variant of get_agent_reply: a template is avoided if it was ever used
avoids_every_reply(current_message, previous_replies) ==
  LET templates == RESPONSE_TEMPLATES[reply_category(current_message)]
      unused == { k \in 1..Len(templates) : ~InList(templates[k], previous_replies) }
  IN  IF unused = {} THEN templates[1]
      ELSE templates[CHOOSE k \in unused : \A j \in unused : k <= j]

\* get_agent_reply(current_message, conversation_history, previous_replies)
get_agent_reply(current_message, previous_replies) ==
  LET templates == RESPONSE_TEMPLATES[reply_category(current_message)]
      recent == Last3(previous_replies)
      unused == { k \in 1..Len(templates) : ~InList(templates[k], recent) }
  IN  IF unused = {} THEN templates[1]
      ELSE templates[CHOOSE k \in unused : \A j \in unused : k <= j]

\* the value a Python call leaves: a result, or a raised exception
Returned(v) == [raised |-> FALSE, value |-> v]
Raised(e) == [raised |-> TRUE, value |-> e]

\* generate_agent_reply(conversation_history): msg["text"] raises KeyError on a
\* history message without a text
generate_agent_reply(conversation_history) ==
  LET scammers == { k \in 1..Len(conversation_history) :
                      Get(conversation_history[k], "sender", "none") = "scammer" }
      users == { k \in 1..Len(conversation_history) :
                   Get(conversation_history[k], "sender", "none") = "user" }
      IsUser(m) == Get(m, "sender", "none") = "user"
      TextOf(m) == m.text
      last_scammer_msg ==
        conversation_history[CHOOSE k \in scammers : \A j \in scammers : j <= k]
  IN  IF conversation_history = << >> THEN Returned("Why is my account being blocked?")
      ELSE IF scammers = {} THEN Returned("Can you explain that more clearly?")
      ELSE IF \E k \in users : "text" \notin DOMAIN conversation_history[k]
        THEN Raised("KeyError")
      ELSE IF "text" \notin DOMAIN last_scammer_msg THEN Raised("KeyError")
      ELSE Returned(get_agent_reply(last_scammer_msg.text,
                                    Map(TextOf, Filter(IsUser, conversation_history))))

\* variant: the engagement stops one message before max_messages
stops_before_the_cap(message_count, max_messages) ==
  IF message_count + 1 >= max_messages THEN FALSE ELSE TRUE

\* variant: the engagement continues while the count is at most max_messages
continues_at_the_cap(message_count, max_messages) ==
  IF message_count > max_messages THEN FALSE ELSE TRUE

\* should_continue_engagement(conversation_history, message_count, max_messages)
should_continue_engagement(message_count, max_messages) ==
  IF message_count >= max_messages THEN FALSE ELSE TRUE

\* sep.join(list)
RECURSIVE Join(_, _)
Join(sep, list) ==
  IF list = << >> THEN ""
  ELSE IF Len(list) = 1 THEN list[1]
  ELSE list[1] \o sep \o Join(sep, Tail(list))

\* generate_agent_notes(conversation_history, extracted_intelligence): msg["text"]
\* raises KeyError on a scammer message without a text
generate_agent_notes(conversation_history, extracted_intelligence) ==
  LET IsScammer(m) == Get(m, "sender", "none") = "scammer"
      LowerText(m) == Lower(m.text)
      scammers == Filter(IsScammer, conversation_history)
      full_text == Join(" ", Map(LowerText, scammers))
      tactics ==
        (IF AnyIn(<< "urgent", "immediately", "now", "asap" >>, full_text)
         THEN << "urgency pressure" >> ELSE << >>)
        \o (IF AnyIn(<< "blocked", "suspended", "freeze", "locked" >>, full_text)
            THEN << "threat/coercion" >> ELSE << >>)
        \o (IF AnyIn(<< "verify", "confirm", "authenticate" >>, full_text)
            THEN << "credential phishing" >> ELSE << >>)
        \o (IF AnyIn(<< "upi", "payment", "transaction" >>, full_text)
            THEN << "financial exploitation" >> ELSE << >>)
        \o (IF extracted_intelligence.phishingLinks # EmptyBag
            THEN << "malware distribution" >> ELSE << >>)
        \o (IF extracted_intelligence.bankAccounts # EmptyBag
            THEN << "account compromise" >> ELSE << >>)
      notes ==
        "Scammer employed: "
        \o Join(", ", IF tactics = << >> THEN << "social engineering" >> ELSE tactics)
        \o ". "
        \o (IF extracted_intelligence.upiIds # EmptyBag
            THEN "Requested UPI ID sharing. " ELSE "")
        \o (IF extracted_intelligence.bankAccounts # EmptyBag
            THEN "Asked for bank details. " ELSE "")
        \o (IF extracted_intelligence.phishingLinks # EmptyBag
            THEN "Provided suspicious links. " ELSE "")
        \o "Attempted to establish false trust and urgency throughout conversation."
  IN  IF \E k \in 1..Len(scammers) : "text" \notin DOMAIN scammers[k]
      THEN Raised("KeyError")
      ELSE Returned(notes)

(***************************************************************************)
(* Report dispatcher: app/services/guvi_callback.py                        *)
(***************************************************************************)
\* what requests.post can do inside send_final_result: answer 200, answer another
\* status, time out, fail to connect, fail otherwise
DispatchOutcomes == { "200", "non200", "timeout", "connection_error", "other_error" }

\* variant of send_final_result: the timeout of requests.post is not wrapped
raises_timeout(outcome) ==
  IF outcome = "200" THEN Returned(TRUE)
  ELSE IF outcome = "non200" THEN Returned(FALSE)
  ELSE IF outcome = "timeout" THEN Raised("Timeout")
  ELSE Raised("CallbackException")

\* send_final_result(...): True on status 200, False on another status,
\* CallbackException on a timeout, a connection error or any other fault
send_final_result(outcome) ==
  IF outcome = "200" THEN Returned(TRUE)
  ELSE IF outcome = "non200" THEN Returned(FALSE)
  ELSE Raised("CallbackException")

(***************************************************************************)
(* Settings: app/utils/config.py                                           *)
(***************************************************************************)
API_KEY == "your-secret-api-key-change-in-production"
SESSION_TIMEOUT_MINUTES == 30

\* Settings.MIN_MESSAGES_BEFORE_CALLBACK and Settings.MAX_MESSAGES_PER_SESSION are
\* read from the environment (pydantic BaseSettings, defaults 3 and 20,
\* config.py:19-20); the model runs the service configured with a small minimum
\* and a small cap above it
MIN_MESSAGES_BEFORE_CALLBACK == 1
MAX_MESSAGES_PER_SESSION == 2

(***************************************************************************)
(* Bounds of the model                                                     *)
(***************************************************************************)
\* the messages the registry holds at a time, over all sessions
MaxStored == 3
\* the clock advances in steps of TickMinutes, up to MaxNow minutes
TickMinutes == 20
MaxNow == 40

SessionIds == { "s1", "s2" }

\* the x-api-key headers tried: absent, wrong, right
NoKey == ""
ApiKeys == { NoKey, "invalid-key", API_KEY }

\* the samples of the test suite (test_api.py:136-162)
BankingFraudSample ==
  "Your bank account will be blocked. Verify immediately at http://bank-verify.com"
UpiFraudSample == "Send your UPI ID (name@upi) to claim your ₹50,000 prize!"
OtpPhishingSample == "Share your OTP to unlock your account [URGENT]"
LegitimateSample == "Hi, can you help with bus directions?"
PrizeScamSample == "Get free iPhone! Call +919876543210 now, limited time offer!"

\* the banking sample with an https link
SecureBankingSample ==
  "Your bank account will be blocked. Verify immediately at https://bank-verify.com"

\* the request bodies tried (payload.message and payload.conversationHistory):
\*   1  scores 2, below the threshold
\*   2  a scam message with a link, no history
\*   3  a scam message with a UPI id, sent after a hesitant reply of the user
\*   4  a scam message whose history ends with a message without a text
\*   5  a scam message whose history holds a message without a text, not the last
\*   6..10  the samples of the test suite, no history
Payloads ==
  << [sender |-> "scammer", text |-> "call now", timestamp |-> 1,
      conversationHistory |-> << >>],
     [sender |-> "scammer", text |-> "Verify at http://x.co", timestamp |-> 2,
      conversationHistory |-> << >>],
     [sender |-> "scammer", text |-> "Send OTP to Name@UPI now", timestamp |-> 3,
      conversationHistory |->
        << [sender |-> "scammer", text |-> "Verify at http://x.co", timestamp |-> 2],
           [sender |-> "user", text |-> "Is this link safe to click? Where does it take me?",
            timestamp |-> 2] >>],
     [sender |-> "scammer", text |-> "share your pin", timestamp |-> 4,
      conversationHistory |-> << [sender |-> "scammer"] >>],
     [sender |-> "scammer", text |-> "share your pin", timestamp |-> 5,
      conversationHistory |->
        << [sender |-> "scammer"],
           [sender |-> "scammer", text |-> "hi", timestamp |-> 4] >>],
     [sender |-> "scammer", text |-> BankingFraudSample, timestamp |-> 6,
      conversationHistory |-> << >>],
     [sender |-> "scammer", text |-> UpiFraudSample, timestamp |-> 7,
      conversationHistory |-> << >>],
     [sender |-> "scammer", text |-> OtpPhishingSample, timestamp |-> 8,
      conversationHistory |-> << >>],
     [sender |-> "scammer", text |-> LegitimateSample, timestamp |-> 9,
      conversationHistory |-> << >>],
     [sender |-> "scammer", text |-> PrizeScamSample, timestamp |-> 10,
      conversationHistory |-> << >>] >>

\* the payloads of test_scam_detection (test_api.py:73-86) for the samples, and
\* the verdict the suite expects for each (test_api.py:139-159)
SuitePayloads == { 6, 7, 8, 9, 10 }
ExpectedScam == (6 :> TRUE) @@ (7 :> TRUE) @@ (8 :> TRUE) @@ (9 :> FALSE) @@ (10 :> TRUE)

PayloadIds == 1..Len(Payloads)

\* the message of a payload, as analyze_message records it (routes.py:146-150)
MessageOf(p) == [sender |-> p.sender, text |-> p.text, timestamp |-> p.timestamp]

\* full_conversation (routes.py:177-183)
FullConversation(p) == p.conversationHistory \o << MessageOf(p) >>

\* the pure calls of a turn depend on the payload alone: they are computed once
\* per payload
VerdictTable == [k \in PayloadIds |-> detect_scam(Payloads[k].text, Payloads[k].conversationHistory)]
ScamTypesTable == [k \in PayloadIds |-> get_scam_details(Payloads[k].text)]
ExtractTable == [k \in PayloadIds |-> extract_intelligence(Payloads[k].text, FullConversation(Payloads[k]))]
ReplyTable == [k \in PayloadIds |-> generate_agent_reply(Payloads[k].conversationHistory)]

\* generate_agent_notes reads of the bundle only whether phishingLinks, bankAccounts
\* and upiIds are empty (agent.py:237-254): its value is computed once per payload
\* and per set of these categories that hold something
NotesCategories == { "phishingLinks", "bankAccounts", "upiIds" }
NotesTable ==
  [k \in PayloadIds, held \in SUBSET NotesCategories |->
     generate_agent_notes(FullConversation(Payloads[k]),
                          [c \in Categories |-> IF c \in held THEN SetToBag({ "x" }) ELSE EmptyBag])]

(***************************************************************************)
(* Session registry and orchestrator: app/api/routes.py                    *)
(***************************************************************************)
VARIABLES
  SESSION_STORE,  \* session_id -> session, the sessions of the registry
  now,            \* datetime.now(), in minutes
  request,        \* the last call: its x-api-key, sessionId and payload
  response,       \* what the last call answered
  turns           \* session_id -> the payloads the session has recorded, in order

vars == << SESSION_STORE, now, request, response, turns >>

\* {} as the value of detection_details
EmptyDict == [k \in {} |-> 0]

None == "None"

\* initialize_session(session_id): the session it stores
initialize_session(t) ==
  [messages |-> << >>,
   intelligence |-> [c \in Categories |-> EmptyBag],
   agent_replies |-> << >>,
   scam_detected |-> FALSE,
   detection_details |-> EmptyDict,
   created_at |-> t,
   last_activity |-> t,
   engagement_concluded |-> FALSE,
   scam_score |-> 0]

\* a function with one more key
Put(f, key, v) == [k \in DOMAIN f \cup {key} |-> IF k = key THEN v ELSE f[k]]

\* variant: a session that exists is returned as it is
get_or_create_unrefreshed(store, session_id, t) ==
  IF session_id \notin DOMAIN store
  THEN Put(store, session_id, initialize_session(t))
  ELSE store

\* get_or_create_session(session_id): the store it leaves
get_or_create_session(store, session_id, t) ==
  IF session_id \notin DOMAIN store
  THEN Put(store, session_id, initialize_session(t))
  ELSE [store EXCEPT ![session_id].last_activity = t]

\* variant: a session idle for exactly the timeout is expired as well
expired_at_timeout(store, t) ==
  { sid \in DOMAIN store : t - store[sid].last_activity >= SESSION_TIMEOUT_MINUTES }

\* the sessions cleanup_old_sessions deletes
expired_sessions(store, t) ==
  { sid \in DOMAIN store : t - store[sid].last_activity > SESSION_TIMEOUT_MINUTES }

\* variant of cleanup_old_sessions: the sessions found expired are kept
keeps_old_sessions(store, t) == store

\* variant of cleanup_old_sessions: a concluded session is never deleted
keeps_concluded_sessions(store, t) ==
  [sid \in { x \in DOMAIN store :
               x \notin expired_sessions(store, t) \/ store[x].engagement_concluded }
     |-> store[sid]]

\* cleanup_old_sessions(): the store it leaves
cleanup_old_sessions(store, t) ==
  [sid \in DOMAIN store \ expired_sessions(store, t) |-> store[sid]]

\* variant of authenticate_request: any key that is present is accepted
accepts_any_key(x_api_key) ==
  IF x_api_key = NoKey THEN 401 ELSE 200

\* authenticate_request(x_api_key): the status it raises, 200 when it returns
authenticate_request(x_api_key) ==
  IF x_api_key = NoKey THEN 401
  ELSE IF x_api_key # API_KEY THEN 403
  ELSE 200

\* variant of raise_score: the ceiling is overwritten by the score of the message
overwrite_score(scam_score, score) == score

\* session["scam_score"] = max(session["scam_score"], score)  (routes.py:156)
raise_score(scam_score, score) == Max(scam_score, score)

\* variant of returns_ignored: no message is ignored
ignores_nothing(is_scam, session) == FALSE

\* the early return of routes.py:161-163
returns_ignored(is_scam, session) == ~is_scam

\* variant of mark_detected: the flag is flipped by every scam message
flip_detected(session, verdict, total_messages, scam_types) ==
  [session EXCEPT !.scam_detected = ~session.scam_detected]

\* variant of mark_detected: every scam message writes the snapshot
mark_every_scam(session, verdict, total_messages, scam_types) ==
  [session EXCEPT
     !.scam_detected = TRUE,
     !.detection_details =
        [score |-> verdict.score,
         reasons |-> verdict.reasons,
         message_index |-> total_messages,
         scam_types |-> scam_types]]

\* "Mark scam as detected" (routes.py:166-173)
mark_detected(session, verdict, total_messages, scam_types) ==
  IF ~session.scam_detected
  THEN [session EXCEPT
          !.scam_detected = TRUE,
          !.detection_details =
             [score |-> verdict.score,
              reasons |-> verdict.reasons,
              message_index |-> total_messages,
              scam_types |-> scam_types]]
  ELSE session

\* variant of merge_intelligence: the extracted bundle replaces the session's
replace_intelligence(intelligence, new_intelligence) ==
  [key \in DOMAIN intelligence |->
     IF key \in DOMAIN new_intelligence THEN new_intelligence[key] ELSE intelligence[key]]

\* variant of merge_intelligence: extend() without the deduplication of line 191
extend_intelligence(intelligence, new_intelligence) ==
  [key \in DOMAIN intelligence |->
     IF key \in DOMAIN new_intelligence
     THEN intelligence[key] (+) new_intelligence[key]
     ELSE intelligence[key]]

\* "Merge intelligence" (routes.py:188-191)
merge_intelligence(intelligence, new_intelligence) ==
  [key \in DOMAIN intelligence |->
     IF key \in DOMAIN new_intelligence
     THEN list_set(intelligence[key] (+) new_intelligence[key])
     ELSE intelligence[key]]

\* variant of sends_callback: the callback is sent whenever the engagement stops
sends_whenever_stopped(should_continue, session) == ~should_continue

\* the condition of routes.py:209
sends_callback(should_continue, session) ==
  ~should_continue /\ ~session.engagement_concluded

\* the answers of analyze_message
Reply(status, reply, dispatch) ==
  [code |-> 200, status |-> status, reply |-> reply, dispatch |-> dispatch]
HttpError(code) ==
  [code |-> code, status |-> "error", reply |-> None, dispatch |-> "none"]

\* the registry and the answer a turn leaves: `session` stored for session_id
Turn(store, session_id, session, answer) ==
  [store |-> [store EXCEPT ![session_id] = session], response |-> answer]

\* variant of after_callback: the answer of the callback is not recorded
forgets_success(session, success) == session

\* the session after the callback returned or raised (routes.py:226-234)
after_callback(session, success) ==
  IF ~success.raised /\ success.value
  THEN [session EXCEPT !.engagement_concluded = TRUE]
  ELSE session

\* routes.py:215-241: CallbackException is caught at line 232 and the turn answers
\* with the reply; any other exception of the callback reaches line 245
answer_after_callback(store, session_id, outcome, session, agent_reply, success) ==
  IF success.raised /\ success.value # "CallbackException"
  THEN Turn(store, session_id, session, [HttpError(500) EXCEPT !.dispatch = outcome])
  ELSE Turn(store, session_id, after_callback(session, success),
            Reply("success", agent_reply, outcome))

\* routes.py:237-239: the branch taken when no callback is sent and the session,
\* not concluded, holds MIN_MESSAGES_BEFORE_CALLBACK messages or more; its body
\* is `pass`
at_minimum(total_messages, session) ==
  IF total_messages >= MIN_MESSAGES_BEFORE_CALLBACK /\ ~session.engagement_concluded
  THEN session
  ELSE session

\* routes.py:201-241: the continuation decision, the final callback, the answer
\* (the branch of routes.py:237-239 does nothing)
conclude_or_continue(store, session_id, k, outcome, session, agent_reply) ==
  LET total_messages == Len(session.messages)
      should_continue ==
        should_continue_engagement(total_messages, MAX_MESSAGES_PER_SESSION)
      agent_notes ==
        NotesTable[k, { c \in NotesCategories : session.intelligence[c] # EmptyBag }]
  IN  IF ~sends_callback(should_continue, session)
      THEN Turn(store, session_id, at_minimum(total_messages, session),
                Reply("success", agent_reply, "none"))
      ELSE IF agent_notes.raised
        THEN Turn(store, session_id, session, HttpError(500))
      ELSE answer_after_callback(store, session_id, outcome, session, agent_reply,
                                 send_final_result(outcome))

\* variant of engage: a reply that raises leaves the session without the
\* detection mark and the intelligence
engage_or_forget(store, session_id, k, outcome, session) ==
  LET total_messages == Len(session.messages)
      detected == mark_detected(session, VerdictTable[k], total_messages,
                                ScamTypesTable[k])
      merged == [detected EXCEPT
                   !.intelligence = merge_intelligence(@, ExtractTable[k])]
      agent_reply == ReplyTable[k]
  IN  IF agent_reply.raised
      THEN Turn(store, session_id,
                [session EXCEPT !.scam_detected = FALSE,
                                !.intelligence = [c \in Categories |-> EmptyBag]],
                HttpError(500))
      ELSE conclude_or_continue(store, session_id, k, outcome,
                                [merged EXCEPT
                                   !.agent_replies = Append(@, agent_reply.value)],
                                agent_reply.value)

\* routes.py:165-199: the detection mark, the extraction and merge, the reply
engage(store, session_id, k, outcome, session) ==
  LET total_messages == Len(session.messages)
      detected == mark_detected(session, VerdictTable[k], total_messages,
                                ScamTypesTable[k])
      merged == [detected EXCEPT
                   !.intelligence = merge_intelligence(@, ExtractTable[k])]
      agent_reply == ReplyTable[k]
  IN  IF agent_reply.raised
      THEN Turn(store, session_id, merged, HttpError(500))
      ELSE conclude_or_continue(store, session_id, k, outcome,
                                [merged EXCEPT
                                   !.agent_replies = Append(@, agent_reply.value)],
                                agent_reply.value)

\* variant of record_and_score: the early return comes after the extraction
\* and the merge
record_score_and_merge(store, session_id, k, outcome) ==
  LET scored == [store[session_id] EXCEPT
                   !.messages = Append(@, MessageOf(Payloads[k])),
                   !.scam_score = raise_score(@, VerdictTable[k].score)]
  IN  IF returns_ignored(VerdictTable[k].is_scam, scored)
      THEN Turn(store, session_id,
                [scored EXCEPT !.intelligence = merge_intelligence(@, ExtractTable[k])],
                Reply("ignored", None, "none"))
      ELSE engage(store, session_id, k, outcome, scored)

\* routes.py:145-163: the message recorded, the score raised, the early return
record_and_score(store, session_id, k, outcome) ==
  LET scored == [store[session_id] EXCEPT
                   !.messages = Append(@, MessageOf(Payloads[k])),
                   !.scam_score = raise_score(@, VerdictTable[k].score)]
  IN  IF returns_ignored(VerdictTable[k].is_scam, scored)
      THEN Turn(store, session_id, scored, Reply("ignored", None, "none"))
      ELSE engage(store, session_id, k, outcome, scored)

\* analyze_message(payload, x_api_key) run on the registry `store` at time t, with
\* payload k for session_id; `outcome` is what the callback request does if the
\* turn sends it. The value is the registry it leaves and its answer: HTTPException
\* of the authentication is re-raised (routes.py:243-244), any other exception
\* answers 500 (routes.py:245-250).
analyze_message(store, t, x_api_key, session_id, k, outcome) ==
  IF authenticate_request(x_api_key) # 200
  THEN [store |-> store, response |-> HttpError(authenticate_request(x_api_key))]
  ELSE record_and_score(
         get_or_create_session(cleanup_old_sessions(store, t), session_id, t),
         session_id, k, outcome)

\* the messages the registry holds
RECURSIVE StoredIn(_, _)
StoredIn(store, sids) ==
  IF sids = {} THEN 0
  ELSE LET sid == CHOOSE x \in sids : TRUE
       IN  Len(store[sid].messages) + StoredIn(store, sids \ {sid})

StoredMessages == StoredIn(SESSION_STORE, DOMAIN SESSION_STORE)

NoResponse == [code |-> 0, status |-> "none", reply |-> None, dispatch |-> "none"]
NoRequest == [x_api_key |-> NoKey, session_id |-> None, k |-> 0, swept |-> {}]

Init ==
  /\ SESSION_STORE = [sid \in {} |-> 0]
  /\ now = 0
  /\ request = NoRequest
  /\ response = NoResponse
  /\ turns = [sid \in {} |-> 0]

\* the turn `r` of analyze_message taken for session_id with payload k: the
\* registry and the answer it leaves, and the payloads recorded by the session
\* (`kept`: the sessions the cleanup of the turn did not delete). A turn that
\* sends no callback does not depend on r.outcome: it is taken for one outcome.
Take(r, kept, recorded, session_id, k) ==
  /\ SESSION_STORE' = r.store
  /\ response' = r.response
  /\ turns' =
       [sid \in DOMAIN r.store |->
          IF sid = session_id /\ recorded
          THEN Append(IF sid \in kept THEN turns[sid] ELSE << >>, k)
          ELSE turns[sid]]
  /\ r.response.dispatch = "none" => r.outcome = "200"
  /\ UNCHANGED now

\* the sessions the call deletes: cleanup_old_sessions runs after the
\* authentication (routes.py:130-133)
Swept(x_api_key) ==
  IF authenticate_request(x_api_key) = 200
  THEN expired_sessions(SESSION_STORE, now)
  ELSE {}

\* one call of POST /api/analyze-message, with an x-api-key header of `keys` and
\* a body of `ks`, while the registry holds less than `bound` messages; the
\* callback request, if the turn sends it, does any of DispatchOutcomes
Call(keys, ks, bound) ==
  \E x_api_key \in keys, session_id \in SessionIds, k \in ks,
     outcome \in DispatchOutcomes :
    /\ authenticate_request(x_api_key) = 200 => StoredMessages < bound
    /\ request' = [x_api_key |-> x_api_key, session_id |-> session_id, k |-> k,
                   swept |-> Swept(x_api_key)]
    /\ Take([outcome |-> outcome] @@
              analyze_message(SESSION_STORE, now, x_api_key, session_id, k, outcome),
            DOMAIN SESSION_STORE \ Swept(x_api_key),
            authenticate_request(x_api_key) = 200, session_id, k)

\* the bodies sent to the service: payload 5 is sent in FaultSpec only
SpecPayloads == { 1, 2, 3, 4 }

AnalyzeMessage(keys) == Call(keys, SpecPayloads, MaxStored)

\* time passes
Tick ==
  /\ now < MaxNow
  /\ now' = now + TickMinutes
  /\ UNCHANGED << SESSION_STORE, request, response, turns >>

\* a call of an authorized client
Authorized == AnalyzeMessage({API_KEY})

\* the service under the calls of authorized clients
Next == Authorized \/ Tick

Spec == Init /\ [][Next]_vars

\* the bodies of FaultSpec: a scam message that carries intelligence, and the two
\* scam messages whose history makes generate_agent_reply (4) and
\* generate_agent_notes (5) raise KeyError
FaultPayloads == { 3, 4, 5 }

\* a call of an authorized client with one of these bodies
Faulty == Call({ API_KEY }, FaultPayloads, MaxStored)

FaultNext == Faulty \/ Tick

\* the service under calls that make it answer 500
FaultSpec == Init /\ [][FaultNext]_vars

\* get_session_info(session_id, x_api_key) (routes.py:253-280): its answer; it
\* neither sweeps nor writes the registry
get_session_info(store, x_api_key, session_id) ==
  IF authenticate_request(x_api_key) # 200
  THEN HttpError(authenticate_request(x_api_key))
  ELSE IF session_id \notin DOMAIN store
    THEN HttpError(404)
  ELSE [code |-> 200, status |-> "session", reply |-> None, dispatch |-> "none",
        session |->
          [sessionId |-> session_id,
           messageCount |-> Len(store[session_id].messages),
           scamDetected |-> store[session_id].scam_detected,
           detectionDetails |-> store[session_id].detection_details,
           extractedIntelligence |-> store[session_id].intelligence,
           engagementConcluded |-> store[session_id].engagement_concluded,
           createdAt |-> store[session_id].created_at,
           lastActivity |-> store[session_id].last_activity]]

\* one call of GET /api/session/{session_id}
GetSessionInfo ==
  \E x_api_key \in ApiKeys, session_id \in SessionIds :
    /\ request' = [x_api_key |-> x_api_key, session_id |-> session_id, k |-> 0,
                   swept |-> {}]
    /\ response' = get_session_info(SESSION_STORE, x_api_key, session_id)
    /\ UNCHANGED << SESSION_STORE, now, turns >>

\* the messages the registry holds at a time when any client calls
MaxStoredAnyClient == 2

\* the bodies any client sends: a message below the threshold and a scam message
\* that carries intelligence
AnyClientPayloads == { 1, 3 }

\* a call of any client, with or without the key
AnyClient == Call(ApiKeys, AnyClientPayloads, MaxStoredAnyClient)

ServiceNext == AnyClient \/ GetSessionInfo \/ Tick

\* the service under the calls of all clients, on both endpoints
ServiceSpec == Init /\ [][ServiceNext]_vars

(***************************************************************************)
(* The life of session identifiers: authorized clients send messages and   *)
(* read (session lookup, health check) while the clock advances in steps   *)
(* that reach the timeout exactly. Sessions are swept and identifiers used *)
(* again; `turns` counts, per identifier, the callbacks answered 200.      *)
(***************************************************************************)
\* health_check(): no authentication, the number of sessions of the registry
health_check(store) ==
  [code |-> 200, status |-> "running", reply |-> None, dispatch |-> "none",
   service |-> "Agentic Honeypot API", version |-> "1.0.0",
   sessions |-> Cardinality(DOMAIN store)]

\* the clock of this specification advances in steps of LifeTickMinutes
LifeTickMinutes == 15

\* a message below the threshold and a scam message
LifePayloads == { 1, 2 }

LifeInit ==
  /\ SESSION_STORE = [sid \in {} |-> 0]
  /\ now = 0
  /\ request = NoRequest
  /\ response = NoResponse
  /\ turns = [sid \in SessionIds |-> 0]

\* the turn r taken for session_id
Counted(r, session_id) ==
  /\ SESSION_STORE' = r.store
  /\ response' = r.response
  /\ turns' = [turns EXCEPT ![session_id] =
                 IF r.response.dispatch = "200" THEN @ + 1 ELSE @]
  /\ r.response.dispatch = "none" => r.outcome = "200"
  /\ UNCHANGED now

\* one call of POST /api/analyze-message by an authorized client
LifeCall ==
  \E session_id \in SessionIds, k \in LifePayloads, outcome \in DispatchOutcomes :
    /\ StoredMessages < MaxStored
    /\ request' = [x_api_key |-> API_KEY, session_id |-> session_id, k |-> k,
                   swept |-> Swept(API_KEY)]
    /\ Counted([outcome |-> outcome] @@
                 analyze_message(SESSION_STORE, now, API_KEY, session_id, k, outcome),
               session_id)

\* variant of session_lookup: the lookup sweeps before it reads
sweeping_lookup(store, t, x_api_key, session_id) ==
  [store |-> cleanup_old_sessions(store, t),
   response |-> get_session_info(cleanup_old_sessions(store, t), x_api_key, session_id)]

\* get_session_info run on the registry `store` at time t: the registry it
\* leaves and its answer (routes.py:262-280 reads SESSION_STORE and assigns nothing)
session_lookup(store, t, x_api_key, session_id) ==
  [store |-> store, response |-> get_session_info(store, x_api_key, session_id)]

\* the lookup r taken
Looked(r) ==
  /\ SESSION_STORE' = r.store
  /\ response' = r.response
  /\ UNCHANGED << now, turns >>

\* one call of GET /api/session/{session_id} by an authorized client
LifeLookup ==
  \E session_id \in SessionIds :
    /\ request' = [x_api_key |-> API_KEY, session_id |-> session_id, k |-> 0,
                   swept |-> {}]
    /\ Looked(session_lookup(SESSION_STORE, now, API_KEY, session_id))

\* one call of GET /api/health
HealthCheck ==
  /\ request' = NoRequest
  /\ response' = health_check(SESSION_STORE)
  /\ UNCHANGED << SESSION_STORE, now, turns >>

LifeTick ==
  /\ now < MaxNow
  /\ now' = now + LifeTickMinutes
  /\ UNCHANGED << SESSION_STORE, request, response, turns >>

LifeNext == LifeCall \/ LifeLookup \/ HealthCheck \/ LifeTick

LifeSpec == LifeInit /\ [][LifeNext]_vars

(***************************************************************************)
(* Retries of the final callback: one session keeps receiving scam         *)
(* messages and is not evicted (no time passes). A message arrives while   *)
(* the callback endpoint is up (a callback request is answered 200) or     *)
(* while it is down (the request fails in one of the other ways).          *)
(***************************************************************************)
\* the turns taken while the endpoint is down are bounded by the messages the
\* session holds; a turn with the endpoint up can still be taken then
MaxRetried == 4

RetrySessionIds == { "s1" }

\* the ways a callback request fails
FailedOutcomes == DispatchOutcomes \ { "200" }

\* scam messages
RetryPayloads == { 2, 3 }

\* one call of POST /api/analyze-message with a scam message; the callback
\* request, if the turn sends it, is answered 200
EndpointUp ==
  \E session_id \in RetrySessionIds, k \in RetryPayloads :
    /\ StoredMessages < MaxRetried + 1
    /\ request' = [x_api_key |-> API_KEY, session_id |-> session_id, k |-> k,
                   swept |-> {}]
    /\ Take([outcome |-> "200"] @@
              analyze_message(SESSION_STORE, now, API_KEY, session_id, k, "200"),
            DOMAIN SESSION_STORE, TRUE, session_id, k)

\* one call of POST /api/analyze-message with a scam message; the callback
\* request the turn sends fails
EndpointDown ==
  \E session_id \in RetrySessionIds, k \in RetryPayloads,
     outcome \in FailedOutcomes :
    /\ StoredMessages < MaxRetried
    /\ request' = [x_api_key |-> API_KEY, session_id |-> session_id, k |-> k,
                   swept |-> {}]
    /\ Take([outcome |-> outcome] @@
              analyze_message(SESSION_STORE, now, API_KEY, session_id, k, outcome),
            DOMAIN SESSION_STORE, TRUE, session_id, k)

RetryNext == EndpointUp \/ EndpointDown

\* EndpointUp can be taken (every scam message is appended to its session, so
\* the step changes the registry) while its guard holds
EndpointUpEnabled == StoredMessages < MaxRetried + 1

\* weak fairness of EndpointUp, WF_vars(EndpointUp), written out with the
\* enabling condition of the action: a message arrives, sooner or later, while
\* the endpoint is up
RetrySpec ==
  /\ Init
  /\ [][RetryNext]_vars
  /\ ([]<>(~EndpointUpEnabled) \/ []<><<EndpointUp>>_vars)

(***************************************************************************)
(* The service under the scam-detection tests of the suite: each sample is *)
(* sent with an empty conversation history (test_api.py:71-93).            *)
(***************************************************************************)
\* the messages the registry holds at a time under the tests of the suite
MaxStoredSuite == 2

SuiteCall == Call({ API_KEY }, SuitePayloads, MaxStoredSuite)

SuiteNext == SuiteCall \/ Tick

SuiteSpec == Init /\ [][SuiteNext]_vars

(***************************************************************************)
(* The merge of routes.py:188-191 on its own: bundles are merged, one      *)
(* after the other, into the intelligence of one session. `request` holds  *)
(* the bundle merged last and the intelligence it was merged into.         *)
(***************************************************************************)
MergedUpiIds == { "x@upi", "y@upi" }
MergedLinks == { "http://x.co", "http://y.co" }

\* bundles as extract_intelligence returns them: all categories, every value once
Bundles ==
  { [c \in Categories |->
       IF c = "upiIds" THEN SetToBag(u)
       ELSE IF c = "phishingLinks" THEN SetToBag(l)
       ELSE EmptyBag] : u \in SUBSET MergedUpiIds, l \in SUBSET MergedLinks }

MergeInit ==
  /\ SESSION_STORE = [sid \in { "s1" } |-> initialize_session(0)]
  /\ now = 0
  /\ request = NoRequest
  /\ response = NoResponse
  /\ turns = [sid \in { "s1" } |-> << >>]

MergeBundle ==
  \E new_intelligence \in Bundles :
    /\ request' = [session_id |-> "s1",
                   intelligence |-> SESSION_STORE["s1"].intelligence,
                   new_intelligence |-> new_intelligence]
    /\ SESSION_STORE' =
         [SESSION_STORE EXCEPT
            !["s1"].intelligence = merge_intelligence(@, new_intelligence)]
    /\ UNCHANGED << now, response, turns >>

MergeSpec == MergeInit /\ [][MergeBundle]_vars

(***************************************************************************)
(* The reply strategist on its own: get_agent_reply is called with a       *)
(* message and the previous replies held by `request`, `response` holds    *)
(* its reply.                                                              *)
(***************************************************************************)
\* the previous replies are lists of at most MaxReplies entries
MaxReplies == 4

\* the messages tried: none, one or several categories detected, in every case of
\* the letters, as a word or inside a word
StrategistMessages ==
  { "hello",
    "Send your UPI and OTP",
    "Verify your OTP",
    "Share the OTP now",
    "Enter password and cvv",
    "CVV, then click the link",
    "Click http://x.co to download",
    "Install it to verify",
    "Verify or account is locked",
    "Account suspended, act today",
    "Do it ASAP",
    "I know nothing" }

\* the entries of previous_replies tried: the templates of "otp" and a template
\* of "default"
ReplyPool ==
  ToSet(RESPONSE_TEMPLATES["otp"]) \cup { RESPONSE_TEMPLATES["default"][1] }

ReplyLists == UNION { [1..n -> ReplyPool] : n \in 0..MaxReplies }

StrategistInit ==
  /\ SESSION_STORE = [sid \in {} |-> 0]
  /\ now = 0
  /\ turns = [sid \in {} |-> 0]
  /\ request \in [current_message : StrategistMessages, previous_replies : ReplyLists]
  /\ response = NoResponse

GetAgentReply ==
  /\ response = NoResponse
  /\ response' = [reply |-> get_agent_reply(request.current_message,
                                             request.previous_replies)]
  /\ UNCHANGED << SESSION_STORE, now, request, turns >>

StrategistSpec == StrategistInit /\ [][GetAgentReply]_vars

(***************************************************************************)
(* The scorer on its own: detect_scam is called with the message and the   *)
(* conversation history held by `request`, `response` holds its verdict.   *)
(* `request` also holds the value the settings give SCAM_SCORE_THRESHOLD   *)
(* (config.py:18, read from the environment by BaseSettings).              *)
(***************************************************************************)
\* the messages scored: the samples, and messages with one or several urgency or
\* threat keywords and little else
ScorerMessages ==
  { BankingFraudSample, SecureBankingSample, UpiFraudSample, OtpPhishingSample,
    LegitimateSample, PrizeScamSample,
    "call now", "Pay today or we cancel", "Send the fee" }

\* the conversation histories are lists of at most MaxHistory messages
MaxHistory == 4

\* the messages of the histories: a user message with a hesitation marker, one
\* without, and a scammer message with a marker
HistoryPool ==
  { [sender |-> "user", text |-> "I am Worried, is it safe?"],
    [sender |-> "user", text |-> "ok"],
    [sender |-> "scammer", text |-> "not sure you understand"] }

Histories == UNION { [1..n -> HistoryPool] : n \in 0..MaxHistory }

\* the values of SCAM_SCORE_THRESHOLD the service is configured with
Thresholds == { 2, 4, 6 }

ScorerInit ==
  /\ SESSION_STORE = [sid \in {} |-> 0]
  /\ now = 0
  /\ turns = [sid \in {} |-> 0]
  /\ request \in [message : ScorerMessages, conversation_history : Histories,
                   SCAM_SCORE_THRESHOLD : Thresholds]
  /\ response = NoResponse

DetectScam ==
  /\ response = NoResponse
  /\ response' = detect_scam(request.message, request.conversation_history)
  /\ UNCHANGED << SESSION_STORE, now, request, turns >>

ScorerSpec == ScorerInit /\ [][DetectScam]_vars

(***************************************************************************)
(* The extractor on its own, called as analyze_message calls it            *)
(* (routes.py:177-185): with the text of the message and, as               *)
(* full_conversation, the conversation history followed by the message.    *)
(* `request` holds the text and the history, `response` the bundle.        *)
(***************************************************************************)
\* digit tokens, each with what int() of it gives compared with 1000000000
DigitTokens ==
  { [digits |-> "12345678", above_billion |-> FALSE],
    [digits |-> "123456789", above_billion |-> FALSE],
    [digits |-> "1000000000", above_billion |-> FALSE],
    [digits |-> "1000000001", above_billion |-> TRUE],
    [digits |-> "000000123456", above_billion |-> FALSE],
    [digits |-> "0001000000001", above_billion |-> TRUE],
    [digits |-> "1700000000000", above_billion |-> TRUE],
    [digits |-> "12345678901234", above_billion |-> TRUE],
    [digits |-> "00000000000001", above_billion |-> FALSE],
    [digits |-> "123456789012345678", above_billion |-> TRUE],
    [digits |-> "1234567890123456789", above_billion |-> TRUE] }

\* a text with two digit tokens
BankText(a, b) == "Pay to " \o a.digits \o " or " \o b.digits

BankTexts == { BankText(a, b) : a, b \in DigitTokens }

\* texts with e-mail addresses of trusted and other domains, with and without a
\* suspicious keyword
EmailTexts ==
  { "Send payment to my bank account, mail bob@gmail.com",
    "Verify your account, mail bob@gmail.com",
    "Send payment to my bank account, mail bob@evil.com",
    "Write to Bob@Yahoo.com or x@outlook.com",
    "hello" }

ExtractorHistories ==
  { << >>,
    << [sender |-> "user", text |-> "ok", timestamp |-> 1] >>,
    << [sender |-> "scammer", text |-> "my mail is a@outlook.com", timestamp |-> 1],
       [sender |-> "user", text |-> "ok", timestamp |-> 2] >> }

ExtractorInit ==
  /\ SESSION_STORE = [sid \in {} |-> 0]
  /\ now = 0
  /\ turns = [sid \in {} |-> 0]
  /\ request \in [text : BankTexts \cup EmailTexts,
                   conversationHistory : ExtractorHistories]
  /\ response = NoResponse

ExtractIntelligence ==
  /\ response = NoResponse
  /\ response' =
       extract_intelligence(
         request.text,
         request.conversationHistory
           \o << [sender |-> "scammer", text |-> request.text, timestamp |-> 3] >>)
  /\ UNCHANGED << SESSION_STORE, now, request, turns >>

ExtractorSpec == ExtractorInit /\ [][ExtractIntelligence]_vars

(***************************************************************************)
(* Calls in parallel. analyze_message is a plain `def` handler: the server *)
(* runs every call on a thread of its pool, and routes.py takes no lock    *)
(* around SESSION_STORE or a session. A thread can be preempted between    *)
(* any two bytecodes; the model preempts it only between the steps below   *)
(* and runs each step without preemption, which is one of the schedules    *)
(* the interpreter can produce. `request` holds the frame of the call a    *)
(* thread is in, `response` the last answer given on each thread, `turns`  *)
(* the payloads of the calls answered 200, per session identifier.         *)
(***************************************************************************)
Threads == { 1, 2 }

\* the calls made in all: those answered 200 and those in progress
MaxCalls == 3

\* the bodies sent in parallel: scam messages with scores 4 and 14
ConcPayloads == { 2, 3 }

\* what the callback request does in these calls
ConcOutcomes == { "200", "timeout" }

\* the calls made in parallel are for one session
ConcSessionIds == { "s1" }

Idle == [pc |-> "idle"]

NoAnswer ==
  [error |-> "none", session_id |-> None, wrote_detached |-> "no"] @@ NoResponse

\* the answer of the call of `frame`
Answer(frame, answer, error) ==
  [error |-> error, session_id |-> frame.session_id,
   wrote_detached |-> frame.wrote_detached] @@ answer

\* the steps during which a thread holds the reference `session` (routes.py:143)
HoldingPcs == { "record", "score", "merge", "store", "reply", "dispatch" }

\* the object the reference `session` of a frame points to: the entry of the
\* registry, or the object that was the entry until another thread deleted or
\* replaced it
Referent(store, frame) ==
  IF frame.detached # "no" THEN frame.session ELSE store[frame.session_id]

\* a write through the reference `session` of thread t
Written(store, frames, t, object) ==
  IF frames[t].detached # "no"
  THEN [store |-> store,
        frames |-> [frames EXCEPT ![t].session = object,
                                  ![t].wrote_detached = frames[t].detached]]
  ELSE [store |-> [store EXCEPT ![frames[t].session_id] = object],
        frames |-> frames]

\* the frames after the entry of session_id was deleted ("del") or replaced
\* ("init"): the threads that hold it keep the object
Detach(store, frames, session_id, cause) ==
  [u \in DOMAIN frames |->
     IF /\ frames[u].pc \in HoldingPcs
        /\ frames[u].session_id = session_id
        /\ frames[u].detached = "no"
        /\ session_id \in DOMAIN store
     THEN [detached |-> cause, session |-> store[session_id]] @@ frames[u]
     ELSE frames[u]]

\* the position of a new key in the dict: after the keys it holds
NextInserted(store) ==
  IF DOMAIN store = {} THEN 1
  ELSE 1 + (CHOOSE n \in { store[sid].inserted : sid \in DOMAIN store } :
              \A sid \in DOMAIN store : store[sid].inserted <= n)

\* keys of the dict in iteration order
RECURSIVE InOrder(_, _)
InOrder(store, sids) ==
  IF sids = {} THEN << >>
  ELSE LET first == CHOOSE sid \in sids :
                      \A other \in sids : store[sid].inserted <= store[other].inserted
       IN  << first >> \o InOrder(store, sids \ { first })

\* the keys of new_intelligence, in the order of the dict (extractor.py:62-71)
CategoryList ==
  << "bankAccounts", "upiIds", "phishingLinks", "phoneNumbers",
     "suspiciousKeywords", "emailAddresses", "bitcoinAddresses", "ipAddresses" >>

\* the keys for which the merge of payload k has something to add
RECURSIVE KeysToMerge(_, _)
KeysToMerge(k, keys) ==
  IF keys = << >> THEN << >>
  ELSE (IF ExtractTable[k][Head(keys)] # EmptyBag THEN << Head(keys) >> ELSE << >>)
       \o KeysToMerge(k, Tail(keys))

InProgress == Cardinality({ t \in Threads : request[t].pc # "idle" })

ConcInit ==
  /\ SESSION_STORE = [sid \in {} |-> 0]
  /\ now = 0
  /\ request = [t \in Threads |-> Idle]
  /\ response = [t \in Threads |-> NoAnswer]
  /\ turns = [sid \in ConcSessionIds |-> << >>]

\* the call ends with `answer`
Finish(t, frames, answer, error) ==
  /\ request' = [frames EXCEPT ![t] = Idle]
  /\ response' = [response EXCEPT ![t] = Answer(frames[t], answer, error)]
  /\ turns' = IF answer.code = 200
              THEN [turns EXCEPT ![frames[t].session_id] = Append(@, frames[t].k)]
              ELSE turns

\* the call fails: routes.py:245-250
Fail(t, error) ==
  /\ Finish(t, request, HttpError(500), error)
  /\ UNCHANGED << SESSION_STORE, now >>

\* routes.py:130-133 and 93-95: the call is accepted, cleanup_old_sessions reads
\* the clock and starts to iterate over SESSION_STORE.items(); the thread is
\* preempted in the iteration only if there is an entry to visit
StartCall(t) ==
  /\ request[t].pc = "idle"
  /\ Len(turns["s1"]) + InProgress < MaxCalls
  /\ \E session_id \in ConcSessionIds, k \in ConcPayloads :
       request' = [request EXCEPT ![t] =
                     [pc |-> IF DOMAIN SESSION_STORE = {} THEN "delete" ELSE "scan",
                      session_id |-> session_id, k |-> k,
                      expired |-> << >>,
                      current_time |-> now,
                      size |-> Cardinality(DOMAIN SESSION_STORE),
                      detached |-> "no", wrote_detached |-> "no"]]
  /\ response' = [response EXCEPT ![t] = NoAnswer]
  /\ UNCHANGED << SESSION_STORE, now, turns >>

\* routes.py:95-98: the iteration; it raises RuntimeError ("dictionary changed
\* size during iteration") when the dict has another size than at its start
Scan(t) ==
  /\ request[t].pc = "scan"
  /\ IF Cardinality(DOMAIN SESSION_STORE) # request[t].size
     THEN Fail(t, "RuntimeError")
     ELSE /\ request' = [request EXCEPT ![t] =
                [pc |-> "delete",
                 expired |-> InOrder(SESSION_STORE,
                                     expired_sessions(SESSION_STORE,
                                                      request[t].current_time))]
                @@ request[t]]
          /\ UNCHANGED << SESSION_STORE, now, response, turns >>

\* routes.py:100-102: one `del SESSION_STORE[session_id]`, KeyError when the key
\* is not there; after the last one the call goes on
Delete(t) ==
  /\ request[t].pc = "delete"
  /\ IF request[t].expired = << >>
     THEN /\ request' = [request EXCEPT ![t].pc = "test"]
          /\ UNCHANGED << SESSION_STORE, now, response, turns >>
     ELSE LET session_id == Head(request[t].expired)
          IN  IF session_id \notin DOMAIN SESSION_STORE
              THEN Fail(t, "KeyError")
              ELSE /\ SESSION_STORE' =
                        [sid \in DOMAIN SESSION_STORE \ { session_id } |->
                           SESSION_STORE[sid]]
                   /\ request' =
                        [Detach(SESSION_STORE, request, session_id, "del")
                           EXCEPT ![t].expired = Tail(@)]
                   /\ UNCHANGED << now, response, turns >>

\* routes.py:82: `if session_id not in SESSION_STORE`
Test(t) ==
  /\ request[t].pc = "test"
  /\ request' = [request EXCEPT ![t] =
                   [pc |-> "create",
                    found |-> request[t].session_id \in DOMAIN SESSION_STORE]
                   @@ request[t]]
  /\ UNCHANGED << SESSION_STORE, now, response, turns >>

\* routes.py:83-87: initialize_session stores a new object under the key, or
\* last_activity of the entry is refreshed (KeyError when the entry is gone);
\* the entry is returned
Create(t) ==
  LET session_id == request[t].session_id
  IN  /\ request[t].pc = "create"
      /\ IF ~request[t].found
         THEN /\ SESSION_STORE' =
                   Put(SESSION_STORE, session_id,
                       [inserted |-> IF session_id \in DOMAIN SESSION_STORE
                                     THEN SESSION_STORE[session_id].inserted
                                     ELSE NextInserted(SESSION_STORE)]
                       @@ initialize_session(now))
              /\ request' = [Detach(SESSION_STORE, request, session_id, "init")
                               EXCEPT ![t].pc = "record"]
              /\ UNCHANGED << now, response, turns >>
         ELSE IF session_id \notin DOMAIN SESSION_STORE
           THEN Fail(t, "KeyError")
         ELSE /\ SESSION_STORE' =
                   [SESSION_STORE EXCEPT ![session_id].last_activity = now]
              /\ request' = [request EXCEPT ![t].pc = "record"]
              /\ UNCHANGED << now, response, turns >>

\* routes.py:146-155: the message is appended and counted, the message is
\* scored, session["scam_score"] is read
Record(t) ==
  LET object == Referent(SESSION_STORE, request[t])
      appended == [object EXCEPT
                     !.messages = Append(@, MessageOf(Payloads[request[t].k]))]
      w == Written(SESSION_STORE, request, t, appended)
  IN  /\ request[t].pc = "record"
      /\ SESSION_STORE' = w.store
      /\ request' = [w.frames EXCEPT ![t] =
                       [pc |-> "score",
                        total_messages |-> Len(appended.messages),
                        scam_score |-> appended.scam_score] @@ w.frames[t]]
      /\ UNCHANGED << now, response, turns >>

\* routes.py:156-174: the maximum of the score read and the score of the message
\* is written; the early return; the detection mark
Score(t) ==
  LET k == request[t].k
      object == Referent(SESSION_STORE, request[t])
      scored == [object EXCEPT
                   !.scam_score = raise_score(request[t].scam_score,
                                              VerdictTable[k].score)]
      ignored == returns_ignored(VerdictTable[k].is_scam, scored)
      detected == mark_detected(scored, VerdictTable[k], request[t].total_messages,
                                ScamTypesTable[k])
      w == Written(SESSION_STORE, request, t, IF ignored THEN scored ELSE detected)
      keys == KeysToMerge(k, CategoryList)
  IN  /\ request[t].pc = "score"
      /\ SESSION_STORE' = w.store
      /\ IF ignored
         THEN Finish(t, w.frames, Reply("ignored", None, "none"), "none")
         ELSE /\ request' = [w.frames EXCEPT ![t] =
                    [pc |-> IF keys = << >> THEN "reply" ELSE "merge",
                     keys |-> keys] @@ w.frames[t]]
              /\ UNCHANGED << response, turns >>
      /\ UNCHANGED now

\* routes.py:190 and the right-hand side of 191: the list of the key is extended
\* in place, list(set(...)) of it is built
Merge(t) ==
  LET key == Head(request[t].keys)
      object == Referent(SESSION_STORE, request[t])
      extended == object.intelligence[key] (+) ExtractTable[request[t].k][key]
      w == Written(SESSION_STORE, request, t,
                   [object EXCEPT !.intelligence[key] = extended])
  IN  /\ request[t].pc = "merge"
      /\ SESSION_STORE' = w.store
      /\ request' = [w.frames EXCEPT ![t] =
                       [pc |-> "store", deduplicated |-> list_set(extended)]
                       @@ w.frames[t]]
      /\ UNCHANGED << now, response, turns >>

\* the assignment of routes.py:191: the list built replaces the list of the key
Store(t) ==
  LET key == Head(request[t].keys)
      object == Referent(SESSION_STORE, request[t])
      w == Written(SESSION_STORE, request, t,
                   [object EXCEPT !.intelligence[key] = request[t].deduplicated])
  IN  /\ request[t].pc = "store"
      /\ SESSION_STORE' = w.store
      /\ request' = [w.frames EXCEPT ![t] =
                       [pc |-> IF Tail(request[t].keys) = << >>
                               THEN "reply" ELSE "merge",
                        keys |-> Tail(request[t].keys)] @@ w.frames[t]]
      /\ UNCHANGED << now, response, turns >>

\* routes.py:196-209: the reply is generated and recorded; the continuation
\* decision and the test of engagement_concluded
GenerateReply(t) ==
  LET k == request[t].k
      object == Referent(SESSION_STORE, request[t])
      agent_reply == ReplyTable[k]
      replied == [object EXCEPT !.agent_replies = Append(@, agent_reply.value)]
      should_continue ==
        should_continue_engagement(request[t].total_messages, MAX_MESSAGES_PER_SESSION)
      w == Written(SESSION_STORE, request, t, replied)
  IN  /\ request[t].pc = "reply"
      /\ IF agent_reply.raised
         THEN Fail(t, "KeyError")
         ELSE /\ SESSION_STORE' = w.store
              /\ IF sends_callback(should_continue, replied)
                 THEN /\ request' = [w.frames EXCEPT ![t] =
                            [pc |-> "dispatch", agent_reply |-> agent_reply.value]
                            @@ w.frames[t]]
                      /\ UNCHANGED << response, turns >>
                 ELSE Finish(t, w.frames,
                             Reply("success", agent_reply.value, "none"), "none")
              /\ UNCHANGED now

\* routes.py:210-241: the callback request is made and answered; on success
\* engagement_concluded is set; the reply is returned
Dispatch(t) ==
  /\ request[t].pc = "dispatch"
  /\ \E outcome \in ConcOutcomes :
       LET object == Referent(SESSION_STORE, request[t])
           w == Written(SESSION_STORE, request, t,
                        after_callback(object, send_final_result(outcome)))
       IN  /\ SESSION_STORE' = w.store
           /\ Finish(t, w.frames,
                     Reply("success", request[t].agent_reply, outcome), "none")
  /\ UNCHANGED now

\* time passes between the calls
ConcTick == InProgress = 0 /\ Tick

ConcNext ==
  \/ \E t \in Threads :
       \/ StartCall(t)
       \/ Scan(t)
       \/ Delete(t)
       \/ Test(t)
       \/ Create(t)
       \/ Record(t)
       \/ Score(t)
       \/ Merge(t)
       \/ Store(t)
       \/ GenerateReply(t)
       \/ Dispatch(t)
  \/ ConcTick

\* the service under calls made in parallel
ConcSpec == ConcInit /\ [][ConcNext]_vars

(***************************************************************************)
(* Properties                                                              *)
(***************************************************************************)
\* the step is a turn of analyze_message for sid (time passing leaves the
\* registry as it is)
TurnOf(sid) ==
  /\ request'.session_id = sid
  /\ SESSION_STORE' # SESSION_STORE

\* sid names the same session before and after the step: it was not swept and
\* created anew
SameLifetime(sid) ==
  /\ sid \in DOMAIN SESSION_STORE
  /\ sid \in DOMAIN SESSION_STORE'
  /\ SESSION_STORE'[sid].created_at = SESSION_STORE[sid].created_at

\* the payloads whose history is a sequence of messages with a sender and a text
WellFormed ==
  { k \in PayloadIds :
      \A i \in DOMAIN Payloads[k].conversationHistory :
        { "sender", "text" } \subseteq DOMAIN Payloads[k].conversationHistory[i] }

\* the payload a session recorded last
LastOf(sid) == turns[sid][Len(turns[sid])]

\* the messages of ks that the scorer classifies as scam, by position
ScamTurns(ks) == { i \in 1..Len(ks) : VerdictTable[ks[i]].score >= ScamScoreLiteral }

\* C1: within one session's lifetime, once a callback has succeeded
\* (engagement_concluded is true), no later turn of analyze_message for that
\* session sends the callback again, whatever the message scores.
NoDispatchAfterConcluded ==
  [][\A sid \in SessionIds :
       (SameLifetime(sid) /\ TurnOf(sid) /\ SESSION_STORE[sid].engagement_concluded)
         => response'.dispatch = "none"]_vars

\* a concluded session has answered a further message with a reply, and sent nothing
RepliedAfterConcluded ==
  \E sid \in DOMAIN SESSION_STORE :
    /\ request.session_id = sid
    /\ SESSION_STORE[sid].engagement_concluded
    /\ Len(SESSION_STORE[sid].messages) > MAX_MESSAGES_PER_SESSION
    /\ response.status = "success"
    /\ response.dispatch = "none"

\* C2: if the callback of a turn fails (non-200 status, timeout, connection error
\* or any other fault), engagement_concluded stays false, and the next message of
\* the same session sends the callback again.
FailedDispatchIsRetried ==
  [][\A sid \in SessionIds :
       (/\ request.session_id = sid
        /\ response.dispatch \in FailedOutcomes
        /\ SameLifetime(sid) /\ TurnOf(sid)
        /\ request'.k \in WellFormed)
         => (/\ ~SESSION_STORE[sid].engagement_concluded
             /\ response'.dispatch # "none")]_vars

\* C3: when a session with scam_detected true and engagement_concluded false
\* records the message that brings its message count to MAX_MESSAGES_PER_SESSION,
\* that turn sends the callback (once).
DispatchAtTheCap ==
  [][\A sid \in SessionIds :
       (/\ SameLifetime(sid) /\ TurnOf(sid)
        /\ SESSION_STORE[sid].scam_detected
        /\ ~SESSION_STORE[sid].engagement_concluded
        /\ Len(SESSION_STORE'[sid].messages) = MAX_MESSAGES_PER_SESSION
        /\ request'.k \in WellFormed)
         => response'.dispatch \in DispatchOutcomes]_vars

\* C4: during a session's lifetime scam_detected and engagement_concluded change
\* only from false to true (hence at most once each) and never return to false.
FlagsOnlyRise ==
  [][\A sid \in SessionIds :
       SameLifetime(sid)
         => (/\ SESSION_STORE[sid].scam_detected => SESSION_STORE'[sid].scam_detected
             /\ SESSION_STORE[sid].engagement_concluded
                  => SESSION_STORE'[sid].engagement_concluded)]_vars

\* a session detected and concluded earlier has recorded a message that is no scam
FlagsKeptOverIgnoredMessage ==
  \E sid \in DOMAIN SESSION_STORE :
    /\ request.session_id = sid
    /\ response.status = "ignored"
    /\ SESSION_STORE[sid].scam_detected
    /\ SESSION_STORE[sid].engagement_concluded

\* the maximum score of the payloads ks, 0 for none
RECURSIVE MaxScore(_)
MaxScore(ks) ==
  IF ks = << >> THEN 0
  ELSE Max(VerdictTable[Head(ks)].score, MaxScore(Tail(ks)))

\* C5: scam_score never decreases from turn to turn, and after each turn it is the
\* maximum score of all messages the session has processed so far, the messages
\* answered "ignored" included.
ScoreCeilingIsMaximum ==
  [][\A sid \in DOMAIN SESSION_STORE' :
       /\ SESSION_STORE'[sid].scam_score = MaxScore(turns'[sid])
       /\ SameLifetime(sid)
            => SESSION_STORE'[sid].scam_score >= SESSION_STORE[sid].scam_score]_vars

\* a session whose first message was ignored with a positive score has then
\* recorded a message that scores less than the ceiling
CeilingAboveLastScore ==
  \E sid \in DOMAIN SESSION_STORE :
    /\ Len(turns[sid]) >= 2
    /\ VerdictTable[turns[sid][1]].score > 0
    /\ ~VerdictTable[turns[sid][1]].is_scam
    /\ VerdictTable[LastOf(sid)].score < SESSION_STORE[sid].scam_score

\* C6: detection_details (score, reasons, message index, scam types) is written
\* once, on the turn of the first message whose score reaches the threshold, and
\* no later message overwrites it, not even one with a higher score.
SnapshotOfFirstDetection ==
  \A sid \in DOMAIN SESSION_STORE :
    LET ks == turns[sid]
        session == SESSION_STORE[sid]
    IN  IF ScamTurns(ks) = {}
        THEN ~session.scam_detected /\ session.detection_details = EmptyDict
        ELSE LET first == CHOOSE i \in ScamTurns(ks) : \A j \in ScamTurns(ks) : i <= j
             IN  /\ session.scam_detected
                 /\ session.detection_details =
                      [score |-> VerdictTable[ks[first]].score,
                       reasons |-> VerdictTable[ks[first]].reasons,
                       message_index |-> first,
                       scam_types |-> ScamTypesTable[ks[first]]]

\* a detected session has processed a later scam message with a higher score
HigherScoreAfterDetection ==
  \E sid \in DOMAIN SESSION_STORE :
    /\ SESSION_STORE[sid].scam_detected
    /\ Cardinality(ScamTurns(turns[sid])) >= 2
    /\ SESSION_STORE[sid].detection_details.score < VerdictTable[LastOf(sid)].score

\* C7: once a session is detected, every later message of the session is answered
\* with status "success"; "ignored" is answered only when the message is no scam
\* and the session is not yet detected.
RepliesOnceDetected ==
  [][\A sid \in SessionIds :
       (SameLifetime(sid) /\ TurnOf(sid) /\ request'.k \in WellFormed)
         => (/\ SESSION_STORE[sid].scam_detected => response'.status = "success"
             /\ response'.status = "ignored"
                  => (/\ ~VerdictTable[request'.k].is_scam
                      /\ ~SESSION_STORE[sid].scam_detected))]_vars

\* C8: the intelligence of a session only grows: every string a category holds
\* after a turn, it holds after every later turn of the session.
IntelligenceOnlyGrows ==
  [][\A sid \in SessionIds :
       SameLifetime(sid)
         => \A c \in Categories :
              BagToSet(SESSION_STORE[sid].intelligence[c])
                \subseteq BagToSet(SESSION_STORE'[sid].intelligence[c])]_vars

\* a session holds a string that the scam message it merged last did not bring
KeepsWhatLastMessageLacks ==
  \E sid \in DOMAIN SESSION_STORE :
    /\ Len(turns[sid]) >= 2
    /\ Len(turns[sid]) \in ScamTurns(turns[sid])
    /\ response.status = "success"
    /\ \E c \in Categories :
         BagToSet(SESSION_STORE[sid].intelligence[c])
           \ BagToSet(ExtractTable[LastOf(sid)][c]) # {}

\* C9: merging an extracted bundle into the intelligence of a session gives, per
\* category, exactly the set union of the values held and the values extracted;
\* hence merging the same bundle twice gives what merging it once gives, and the
\* result of merging two bundles does not depend on their order.
MergeIsSetUnion ==
  request # NoRequest =>
    LET held == request.intelligence
        new_intelligence == request.new_intelligence
        merged == SESSION_STORE["s1"].intelligence
    IN  /\ \A c \in Categories :
             merged[c] = SetToBag(BagToSet(held[c]) \cup BagToSet(new_intelligence[c]))
        /\ merge_intelligence(merged, new_intelligence) = merged
        /\ \A other \in Bundles :
             merge_intelligence(merge_intelligence(held, new_intelligence), other)
               = merge_intelligence(merge_intelligence(held, other), new_intelligence)

\* a bundle was merged into intelligence that shares a value with it and holds
\* another value the bundle lacks, while the bundle brings one that is new
MergedOverlappingBundles ==
  /\ request # NoRequest
  /\ \E c \in Categories :
       LET held == BagToSet(request.intelligence[c])
           new == BagToSet(request.new_intelligence[c])
       IN  held \cap new # {} /\ held \ new # {}
  /\ \E c \in Categories :
       BagToSet(request.new_intelligence[c]) \ BagToSet(request.intelligence[c]) # {}

\* C10: in every reachable state the intelligence of every session has all eight
\* categories (possibly empty), and no category holds the same string twice.
CategoriesPresentAndUnique ==
  \A sid \in DOMAIN SESSION_STORE :
    /\ DOMAIN SESSION_STORE[sid].intelligence = Categories
    /\ Cardinality(Categories) = 8
    /\ \A c \in Categories :
         \A v \in BagToSet(SESSION_STORE[sid].intelligence[c]) :
           CopiesIn(v, SESSION_STORE[sid].intelligence[c]) = 1

\* a session has merged two scam messages that bring the same string
SameStringMergedTwice ==
  \E sid \in DOMAIN SESSION_STORE :
    \E i, j \in ScamTurns(turns[sid]) :
      /\ i < j
      /\ ReplyTable[turns[sid][j]].raised = FALSE
      /\ \E c \in Categories :
           /\ BagToSet(ExtractTable[turns[sid][i]][c])
                \cap BagToSet(ExtractTable[turns[sid][j]][c]) # {}
           /\ SESSION_STORE[sid].intelligence[c] # EmptyBag


\* the session a turn for sid starts from: the one the registry holds, or the
\* one initialize_session creates when there is none or it has been swept
StartedFrom(sid) ==
  IF SameLifetime(sid) THEN SESSION_STORE[sid] ELSE initialize_session(now)

\* C11: a turn answered "ignored" leaves intelligence, agent_replies,
\* scam_detected, detection_details and engagement_concluded of the session as
\* they were and sends no callback; it appends one message, and only
\* last_activity and scam_score may change besides.
IgnoredTurnFrame ==
  [][\A sid \in SessionIds :
       (TurnOf(sid) /\ response'.status = "ignored")
         => LET before == StartedFrom(sid)
                after == SESSION_STORE'[sid]
            IN  /\ after.intelligence = before.intelligence
                /\ after.agent_replies = before.agent_replies
                /\ after.scam_detected = before.scam_detected
                /\ after.detection_details = before.detection_details
                /\ after.engagement_concluded = before.engagement_concluded
                /\ after.created_at = before.created_at
                /\ after.messages = Append(before.messages, MessageOf(Payloads[request'.k]))
                /\ response'.dispatch = "none"]_vars

\* a session that holds intelligence and replies has recorded a message that was
\* ignored and carries a marker the extractor would have kept
IgnoredMessageWithKeyword ==
  \E sid \in DOMAIN SESSION_STORE :
    /\ request.session_id = sid
    /\ response.status = "ignored"
    /\ SESSION_STORE[sid].agent_replies # << >>
    /\ \E c \in Categories :
         BagToSet(ExtractTable[request.k][c])
           \ BagToSet(SESSION_STORE[sid].intelligence[c]) # {}

IdleTooLong(sid) ==
  /\ sid \in DOMAIN SESSION_STORE
  /\ now - SESSION_STORE[sid].last_activity > SESSION_TIMEOUT_MINUTES

\* C13: after the sweep of an accepted message, a session that was idle longer
\* than the timeout is not found by the session lookup (404), and when the message
\* is for that identifier it creates a fresh session: created now, holding this one
\* message, the score, the detection and the intelligence of this message alone,
\* at most one reply, and nothing of the evicted session. The lookup answers 404
\* exactly for the identifiers the registry does not hold.
EvictedSessionStartsAfresh ==
  [][/\ \A sid \in SessionIds :
          (/\ now' = now
           /\ request'.x_api_key = API_KEY
           /\ request'.k \in PayloadIds
           /\ IdleTooLong(sid)) =>
            IF sid # request'.session_id
            THEN /\ sid \notin DOMAIN SESSION_STORE'
                 /\ get_session_info(SESSION_STORE', API_KEY, sid).code = 404
            ELSE LET session == SESSION_STORE'[sid]
                     k == request'.k
                     is_scam == VerdictTable[k].score >= ScamScoreLiteral
                 IN  /\ session.created_at = now
                     /\ session.last_activity = now
                     /\ session.messages = << MessageOf(Payloads[k]) >>
                     /\ session.scam_score = VerdictTable[k].score
                     /\ session.scam_detected = is_scam
                     /\ is_scam => session.detection_details.message_index = 1
                     /\ ~is_scam => session.detection_details = EmptyDict
                     /\ \A c \in Categories :
                          BagToSet(session.intelligence[c]) =
                            IF is_scam THEN BagToSet(ExtractTable[k][c]) ELSE {}
                     /\ Len(session.agent_replies) <= 1
                     /\ session.engagement_concluded =>
                          response'.dispatch = "200"
                     /\ turns'[sid] = << k >>
     /\ (/\ now' = now
         /\ request'.x_api_key = API_KEY
         /\ request'.k = 0) =>
          /\ SESSION_STORE' = SESSION_STORE
          /\ (response'.code = 404) = (request'.session_id \notin DOMAIN SESSION_STORE)
          /\ (response'.code = 200) = (request'.session_id \in DOMAIN SESSION_STORE)]_vars

\* a message below the threshold arrived for an identifier whose session the
\* sweep of that call deleted: the registry holds a session with this message only
FreshSessionAfterEviction ==
  \E sid \in DOMAIN SESSION_STORE :
    /\ request.session_id = sid
    /\ sid \in request.swept
    /\ response.status = "ignored"
    /\ Len(SESSION_STORE[sid].messages) = 1
    /\ ~SESSION_STORE[sid].scam_detected

\* C14: a turn whose callback failed (a status other than 200, a timeout, a
\* connection error, any other fault) is answered 200 with status "success" and
\* the reply generated on that turn, which the session has recorded last.
FailedDispatchStillReplies ==
  \A sid \in DOMAIN SESSION_STORE :
    (request.session_id = sid /\ response.dispatch \in FailedOutcomes) =>
      /\ response.code = 200
      /\ response.status = "success"
      /\ response.reply = ReplyTable[request.k].value
      /\ SESSION_STORE[sid].agent_replies # << >>
      /\ response.reply =
           SESSION_STORE[sid].agent_replies[Len(SESSION_STORE[sid].agent_replies)]

\* a turn whose callback raised (timeout, connection error, other fault) was
\* answered with a reply
RepliedOverRaisedCallback ==
  /\ response.dispatch \in FailedOutcomes \ { "non200" }
  /\ response.status = "success"
  /\ response.reply # None
  /\ ~SESSION_STORE[request.session_id].engagement_concluded

\* C15: a turn of analyze_message answered 500 leaves the session, if it lived
\* before, with a score ceiling not lower, every value of intelligence it held,
\* and scam_detected and engagement_concluded not reverted.
FailedTurnKeepsMonotonicity ==
  [][\A sid \in SessionIds :
       (/\ request'.session_id = sid
        /\ now' = now
        /\ response'.code = 500
        /\ sid \in DOMAIN SESSION_STORE') =>
         LET before == StartedFrom(sid)
             after == SESSION_STORE'[sid]
         IN  /\ after.scam_score >= before.scam_score
             /\ \A c \in Categories :
                  BagToSet(before.intelligence[c]) \subseteq BagToSet(after.intelligence[c])
             /\ before.scam_detected => after.scam_detected
             /\ before.engagement_concluded => after.engagement_concluded
             /\ Len(after.messages) = Len(before.messages) + 1]_vars

\* generate_agent_notes raised on the turn that was to send the callback, after
\* the turn had recorded its reply and merged a keyword into the intelligence
\* of a session that held a UPI id
FailedAfterPartialUpdate ==
  \E sid \in DOMAIN SESSION_STORE :
    /\ request.session_id = sid
    /\ request.k = 5
    /\ response.code = 500
    /\ SESSION_STORE[sid].agent_replies # << >>
    /\ SESSION_STORE[sid].intelligence.upiIds # EmptyBag
    /\ CopiesIn("pin", SESSION_STORE[sid].intelligence.suspiciousKeywords) = 1
    /\ SESSION_STORE[sid].scam_score > VerdictTable[5].score

\* C19: the reply is a template of the first category, in the order upi, otp,
\* password, cvv, link, download, verify, account_blocked, urgent, whose marker
\* occurs in the message, and a template of "default" when no marker occurs; it is
\* a template of no other category.
FirstCategoryInOrderWins ==
  response # NoResponse =>
    LET order == << "upi", "otp", "password", "cvv", "link", "download", "verify",
                    "account_blocked", "urgent" >>
        context == analyze_message_context(request.current_message)
        matching == { i \in 1..Len(order) : context[order[i]] }
        expected == IF matching = {} THEN "default"
                    ELSE order[CHOOSE i \in matching : \A j \in matching : i <= j]
    IN  \A category \in DOMAIN RESPONSE_TEMPLATES :
          (response.reply \in ToSet(RESPONSE_TEMPLATES[category])) = (category = expected)

\* the message holds the markers of "verify" and, after it, of "otp": the reply
\* is a template of "otp", the earlier category of the order
RepliedToSeveralMarkers ==
  /\ response # NoResponse
  /\ analyze_message_context(request.current_message).verify
  /\ analyze_message_context(request.current_message).otp
  /\ ~analyze_message_context(request.current_message).upi
  /\ response.reply \in ToSet(RESPONSE_TEMPLATES["otp"])

\* C20: the reply is the first template of the category, in list order, that is
\* not among the last three entries of previous_replies, whatever the entries
\* before them; when every template is among these three it is the first template.
FirstTemplateOutsideWindow ==
  response # NoResponse =>
    LET templates == RESPONSE_TEMPLATES[reply_category(request.current_message)]
        previous_replies == request.previous_replies
        n == Len(previous_replies)
        InWindow(t) == \E i \in 1..n : i > n - 3 /\ previous_replies[i] = t
        free == { k \in 1..Len(templates) : ~InWindow(templates[k]) }
    IN  /\ free = {} => response.reply = templates[1]
        /\ free # {} =>
             \E k \in free : /\ response.reply = templates[k]
                              /\ \A j \in 1..(k - 1) : InWindow(templates[j])

\* the first template of the category is the reply again although it is the
\* fourth-last of the previous replies
ReusedReplyOlderThanWindow ==
  /\ response # NoResponse
  /\ Len(request.previous_replies) = 4
  /\ response.reply = request.previous_replies[1]
  /\ \A i \in 2..4 : request.previous_replies[i] # response.reply
  /\ \E i \in 2..4 : request.previous_replies[i] \in
                         ToSet(RESPONSE_TEMPLATES[reply_category(request.current_message)])

\* the reasons of a verdict that are `reason`
ReasonCount(verdict, reason) ==
  Cardinality({ i \in 1..Len(verdict.reasons) : verdict.reasons[i] = reason })

\* C21: the scorer gives the message "Your bank account will be blocked. Verify
\* immediately at https://bank-verify.com" is_scam true, a score of at least 4 and
\* reasons that include "financial context", "urgency/threat tactics" and
\* "external link detected"; it gives "Hi, can you help with bus directions?"
\* is_scam false.
ScorerClassifiesSamples ==
  response # NoResponse =>
    /\ request.message = SecureBankingSample =>
         /\ response.is_scam
         /\ response.score >= 4
         /\ \A reason \in { "financial context", "urgency/threat tactics",
                             "external link detected" } :
              ReasonCount(response, reason) >= 1
    /\ request.message = LegitimateSample => ~response.is_scam

\* the banking message with the https link has been scored without a history, and
\* the link is one of the reasons
ScoredSecureBankingSample ==
  /\ response # NoResponse
  /\ request.message = SecureBankingSample
  /\ request.conversation_history = << >>
  /\ response.is_scam
  /\ ReasonCount(response, "external link detected") = 1

\* C22: a sample of the test suite sent as the first message of a fresh session,
\* with an empty conversation history, is answered "success" exactly when the
\* suite expects a scam: the banking, UPI, OTP and prize samples "success", the
\* bus-directions sample "ignored".
SuiteSamplesAsExpected ==
  \A sid \in DOMAIN SESSION_STORE :
    ( /\ request.session_id = sid
      /\ request.k \in SuitePayloads
      /\ turns[sid] = << request.k >>
      /\ response.code = 200 )
    => /\ response.status \in { "success", "ignored" }
       /\ (response.status = "success") = ExpectedScam[request.k]

\* C23: a token of 9 to 13 digits whose value is above 1,000,000,000 is not among
\* the bankAccounts of the bundle; a token of 9 to 18 digits that has 14 digits or
\* more, or whose value is at most 1,000,000,000 (leading zeros included in the
\* length), is among them.
TimestampsAreNoAccounts ==
  response # NoResponse =>
    \A a, b \in DigitTokens :
      request.text = BankText(a, b) =>
        \A token \in { a, b } :
          LET n == Len(token.digits)
              held == BagIn(token.digits, response.bankAccounts)
          IN  /\ (n >= 9 /\ n <= 13 /\ token.above_billion) => ~held
              /\ (n >= 9 /\ n <= 18 /\ (n >= 14 \/ ~token.above_billion)) => held

\* a text with a 13-digit token above the threshold and a 12-digit token with
\* leading zeros below it: the bundle holds the second alone
KeptTokenWithLeadingZeros ==
  /\ response # NoResponse
  /\ request.text = BankText([digits |-> "1700000000000", above_billion |-> TRUE],
                             [digits |-> "000000123456", above_billion |-> FALSE])
  /\ BagToSet(response.bankAccounts) = { "000000123456" }

\* C24: an e-mail address of a trusted provider (gmail.com, yahoo.com,
\* outlook.com) is among the emailAddresses of the bundle only if the text holds
\* a suspicious keyword. analyze_message calls the extractor for the messages the
\* scorer gives is_scam true (routes.py:161-185).
TrustedEmailsNeedKeyword ==
  ( /\ response # NoResponse
    /\ detect_scam(request.text, request.conversationHistory).is_scam ) =>
    \A e \in BagToSet(response.emailAddresses) :
      AnyIn(TRUSTED_EMAIL_DOMAINS, e) => AnyIn(SUSPICIOUS_KEYWORDS, Lower(request.text))

\* C25: when the message holds an urgency or threat keyword and at least one of the
\* last three messages of the history is a user message with a hesitation marker,
\* the score is 2 above the score of the message without a history and the reason
\* "escalation despite user hesitation" is given exactly once, however many of
\* the three messages hold a marker.
EscalationBonusIsFlat ==
  LET history == request.conversation_history
      n == Len(history)
      hesitant == { i \in 1..n :
                      /\ i > n - 3
                      /\ history[i].sender = "user"
                      /\ AnyIn(HESITATION_MARKERS, Lower(history[i].text)) }
  IN  ( /\ response # NoResponse
        /\ AnyIn(URGENCY_KEYWORDS \o THREAT_KEYWORDS, Lower(request.message))
        /\ hesitant # {} )
      => /\ response.score = detect_scam(request.message, << >>).score + 2
         /\ ReasonCount(response, "escalation despite user hesitation") = 1

\* C29: is_scam is true exactly when the score is at least the value the settings
\* give SCAM_SCORE_THRESHOLD, whatever that value is.
VerdictFollowsConfiguredThreshold ==
  response # NoResponse =>
    response.is_scam = (response.score >= request.SCAM_SCORE_THRESHOLD)

\* C26: a turn answered "success" that leaves the session with fewer messages than
\* MAX_MESSAGES_PER_SESSION sends no callback and leaves engagement_concluded as
\* it was, also when the session has reached MIN_MESSAGES_BEFORE_CALLBACK; a turn
\* answered "success" that leaves a session not yet concluded with
\* MAX_MESSAGES_PER_SESSION messages or more sends the callback.
ContinuesBelowTheCap ==
  [][\A sid \in SessionIds :
       (TurnOf(sid) /\ response'.status = "success")
         => LET before == StartedFrom(sid)
                after == SESSION_STORE'[sid]
                messageCount == Len(after.messages)
            IN  /\ messageCount < MAX_MESSAGES_PER_SESSION =>
                     /\ response'.dispatch = "none"
                     /\ after.engagement_concluded = before.engagement_concluded
                /\ ( /\ messageCount >= MAX_MESSAGES_PER_SESSION
                     /\ ~before.engagement_concluded ) =>
                     response'.dispatch # "none"]_vars

\* a turn answered "success" left the session at or above the minimum and below
\* the cap: no callback was sent and the session is not concluded
ReachedMinimumBelowTheCap ==
  /\ request.session_id \in DOMAIN SESSION_STORE
  /\ response.status = "success"
  /\ Len(SESSION_STORE[request.session_id].messages) >= MIN_MESSAGES_BEFORE_CALLBACK
  /\ Len(SESSION_STORE[request.session_id].messages) < MAX_MESSAGES_PER_SESSION
  /\ response.dispatch = "none"
  /\ ~SESSION_STORE[request.session_id].engagement_concluded

\* C27: the reply of a turn answered "success" is a template of the category
\* that the text of the message of that turn selects.
ReplyAnswersCurrentMessage ==
  \A sid \in DOMAIN SESSION_STORE :
    (request.session_id = sid /\ response.status = "success") =>
      response.reply \in
        ToSet(RESPONSE_TEMPLATES[reply_category(Payloads[request.k].text)])

\* C28: the reply of a turn answered "success" is none of the three replies the
\* session had recorded last before it, unless these three hold every template
\* of the category the reply belongs to.
NoRepetitionOfOwnReplies ==
  \A sid \in DOMAIN SESSION_STORE :
    (request.session_id = sid /\ response.status = "success") =>
      LET agent_replies == SESSION_STORE[sid].agent_replies
          n == Len(agent_replies)
          recent == { agent_replies[i] : i \in { j \in 1..(n - 1) : j >= n - 3 } }
      IN  response.reply \in recent =>
            \E category \in DOMAIN RESPONSE_TEMPLATES :
              /\ response.reply \in ToSet(RESPONSE_TEMPLATES[category])
              /\ ToSet(RESPONSE_TEMPLATES[category]) \subseteq recent

\* C30: every authorized call of analyze-message, answered "success" or "ignored",
\* appends the message of the call to the messages of its session and leaves the
\* entries before it as they were; no other step changes the messages of a
\* session that lives on; the callback of a success turn depends on the length of
\* messages compared with the cap; last_activity is the time of the call.
MessagesAppendOnly ==
  [][\A sid \in SessionIds :
       /\ (TurnOf(sid) /\ response'.status \in { "success", "ignored" })
            => LET before == StartedFrom(sid)
                   after == SESSION_STORE'[sid]
               IN  /\ after.messages =
                        Append(before.messages, MessageOf(Payloads[request'.k]))
                   /\ after.last_activity = now
                   /\ after.created_at = before.created_at
                   /\ response'.status = "success" =>
                        (response'.dispatch # "none") =
                          ( /\ Len(after.messages) >= MAX_MESSAGES_PER_SESSION
                            /\ ~before.engagement_concluded )
       /\ (SameLifetime(sid) /\ ~TurnOf(sid))
            => SESSION_STORE'[sid].messages = SESSION_STORE[sid].messages]_vars

\* a session that lived before the call has recorded an ignored message after
\* its earlier ones, and its last_activity is the time of the call
AppendedToLivingSession ==
  /\ request.session_id \in DOMAIN SESSION_STORE
  /\ response.status = "ignored"
  /\ Len(SESSION_STORE[request.session_id].messages) >= 2
  /\ SESSION_STORE[request.session_id].messages[1].text # Payloads[request.k].text
  /\ SESSION_STORE[request.session_id].last_activity = now
  /\ SESSION_STORE[request.session_id].created_at < now

\* C31: a step removes a session only if the session has been idle longer than
\* the timeout; a session idle for the timeout or less is never removed; and a
\* call that sweeps removes a session exactly when it has been idle longer than
\* the timeout, whatever its scam_detected and engagement_concluded flags.
SweepRemovesOnlyExpired ==
  [][\A sid \in DOMAIN SESSION_STORE :
       LET idle == now - SESSION_STORE[sid].last_activity
       IN  /\ ~SameLifetime(sid) => idle > SESSION_TIMEOUT_MINUTES
           /\ SESSION_STORE' # SESSION_STORE =>
                (~SameLifetime(sid)) = (idle > SESSION_TIMEOUT_MINUTES)]_vars

\* a concluded session idle for exactly the timeout is still held after the call
\* for another session has swept
ConcludedSessionKeptAtTimeout ==
  \E sid \in DOMAIN SESSION_STORE :
    /\ request.session_id \in DOMAIN SESSION_STORE \ { sid }
    /\ request.k \in LifePayloads
    /\ SESSION_STORE[request.session_id].created_at = now
    /\ now - SESSION_STORE[sid].last_activity = SESSION_TIMEOUT_MINUTES
    /\ SESSION_STORE[sid].engagement_concluded

\* C32: a session with engagement_concluded true has scam_detected true and holds
\* MAX_MESSAGES_PER_SESSION messages or more; a turn that sent the callback left
\* its session detected and with that many messages.
ConcludedOnlyAtTheCap ==
  /\ \A sid \in DOMAIN SESSION_STORE :
       SESSION_STORE[sid].engagement_concluded =>
         /\ SESSION_STORE[sid].scam_detected
         /\ Len(SESSION_STORE[sid].messages) >= MAX_MESSAGES_PER_SESSION
  /\ response.dispatch # "none" =>
       /\ request.session_id \in DOMAIN SESSION_STORE
       /\ SESSION_STORE[request.session_id].scam_detected
       /\ Len(SESSION_STORE[request.session_id].messages) >= MAX_MESSAGES_PER_SESSION

\* a session was concluded by the callback of the turn that brought it to the
\* cap, while another session below the cap is detected and not concluded
ConcludedBesideDetectedSession ==
  \E sid, other \in DOMAIN SESSION_STORE :
    /\ request.session_id = sid
    /\ response.dispatch = "200"
    /\ SESSION_STORE[sid].engagement_concluded
    /\ Len(SESSION_STORE[sid].messages) = MAX_MESSAGES_PER_SESSION
    /\ SESSION_STORE[other].scam_detected
    /\ ~SESSION_STORE[other].engagement_concluded
    /\ Len(SESSION_STORE[other].messages) < MAX_MESSAGES_PER_SESSION

\* C33: a session with scam_detected false has every intelligence category
\* empty, no agent reply, an empty detection snapshot and engagement_concluded
\* false; a session with scam_detected true has a scam_score of at least the
\* scam threshold.
UndetectedSessionIsBlank ==
  \A sid \in DOMAIN SESSION_STORE :
    LET session == SESSION_STORE[sid]
    IN  /\ ~session.scam_detected =>
             /\ \A c \in Categories : session.intelligence[c] = EmptyBag
             /\ session.agent_replies = << >>
             /\ session.detection_details = EmptyDict
             /\ ~session.engagement_concluded
        /\ session.scam_detected => session.scam_score >= ScamScoreLiteral

\* a session has recorded two messages that score above zero and is not
\* detected, beside a detected session
UndetectedBesideDetectedSession ==
  \E sid, other \in DOMAIN SESSION_STORE :
    /\ ~SESSION_STORE[sid].scam_detected
    /\ Len(SESSION_STORE[sid].messages) = 2
    /\ SESSION_STORE[sid].scam_score > 0
    /\ SESSION_STORE[other].scam_detected
    /\ SESSION_STORE[other].agent_replies # << >>

\* C34: the session lookup and the health check leave the registry as it is
\* (no field of a session changes, last_activity included, and no session is
\* swept): the lookup answers 200 with the stored last_activity for every session
\* the registry holds, also one idle longer than the timeout, and the health
\* check counts every session the registry holds.
ReadsChangeNothing ==
  [][request'.k = 0 =>
       /\ SESSION_STORE' = SESSION_STORE
       /\ response'.status = "running" =>
            response'.sessions = Cardinality(DOMAIN SESSION_STORE)
       /\ request'.session_id \in SessionIds =>
            /\ (response'.code = 200) = (request'.session_id \in DOMAIN SESSION_STORE)
            /\ (response'.code = 404) = (request'.session_id \notin DOMAIN SESSION_STORE)
            /\ response'.code = 200 =>
                 /\ response'.session.lastActivity =
                      SESSION_STORE[request'.session_id].last_activity
                 /\ response'.session.messageCount =
                      Len(SESSION_STORE[request'.session_id].messages)]_vars

\* the lookup has answered with a session that has been idle longer than the
\* timeout, and the registry still holds it
LookedUpExpiredSession ==
  /\ request.k = 0
  /\ response.status = "session"
  /\ IdleTooLong(request.session_id)
  /\ response.session.lastActivity = SESSION_STORE[request.session_id].last_activity

\* C35: a session that is concluded stays concluded and gets no further callback
\* answered 200 while it lives; a message for an identifier whose session has
\* been idle longer than the timeout creates a fresh session, holding this one
\* message and concluded only if this very turn dispatched with success, whether
\* or not the old session was concluded; so an identifier can count a second
\* callback answered 200.
DispatchedOncePerInstance ==
  [][\A sid \in SessionIds :
       /\ ( /\ sid \in DOMAIN SESSION_STORE
            /\ SESSION_STORE[sid].engagement_concluded
            /\ SameLifetime(sid) )
            => /\ turns'[sid] = turns[sid]
               /\ SESSION_STORE'[sid].engagement_concluded
       /\ turns'[sid] # turns[sid]
            => /\ turns'[sid] = turns[sid] + 1
               /\ SESSION_STORE'[sid].engagement_concluded
               /\ ~StartedFrom(sid).engagement_concluded
       /\ (IdleTooLong(sid) /\ SESSION_STORE' # SESSION_STORE /\ request'.session_id = sid)
            => /\ Len(SESSION_STORE'[sid].messages) = 1
               /\ SESSION_STORE'[sid].created_at = now
               /\ SESSION_STORE'[sid].engagement_concluded = (response'.dispatch = "200")]_vars

\* the identifier has counted two callbacks answered 200: the session created
\* after the eviction has been concluded as well
SecondDispatchForIdentifier ==
  \E sid \in DOMAIN SESSION_STORE :
    /\ turns[sid] = 2
    /\ SESSION_STORE[sid].engagement_concluded
    /\ SESSION_STORE[sid].created_at > SESSION_TIMEOUT_MINUTES
    /\ response.dispatch = "200"

\* C36: a detected session at or beyond the cap that is not concluded, keeps
\* receiving scam messages and is not evicted becomes concluded once a callback
\* succeeds; until then every such turn sends the callback again, however many
\* have failed, and leaves the session not concluded.
RetriedUntilConcluded ==
  /\ \A sid \in RetrySessionIds :
       ( /\ sid \in DOMAIN SESSION_STORE
         /\ SESSION_STORE[sid].scam_detected
         /\ Len(SESSION_STORE[sid].messages) >= MAX_MESSAGES_PER_SESSION
         /\ ~SESSION_STORE[sid].engagement_concluded )
       ~> ( /\ sid \in DOMAIN SESSION_STORE
            /\ SESSION_STORE[sid].engagement_concluded )
  /\ [][\A sid \in RetrySessionIds :
          ( /\ sid \in DOMAIN SESSION_STORE
            /\ SESSION_STORE[sid].scam_detected
            /\ Len(SESSION_STORE[sid].messages) + 1 >= MAX_MESSAGES_PER_SESSION
            /\ ~SESSION_STORE[sid].engagement_concluded
            /\ TurnOf(sid) )
          => /\ response'.status = "success"
             /\ response'.dispatch # "none"
             /\ SESSION_STORE'[sid].engagement_concluded = (response'.dispatch = "200")]_vars

\* the callback of the third turn at or beyond the cap was answered 200 after
\* the callbacks of the two turns before it had failed
ConcludedOnThirdAttempt ==
  \E sid \in DOMAIN SESSION_STORE :
    /\ request.session_id = sid
    /\ response.dispatch = "200"
    /\ SESSION_STORE[sid].engagement_concluded
    /\ Len(SESSION_STORE[sid].messages) = MAX_MESSAGES_PER_SESSION + 2
    /\ Len(SESSION_STORE[sid].agent_replies) = MAX_MESSAGES_PER_SESSION + 2

\* C16: two calls for one session made in parallel leave what the two calls made
\* one after the other leave: once no call is in progress, and while no session
\* has been idle for the timeout, the session holds one message per call answered
\* 200, its score ceiling is the maximum of their scores, and its intelligence
\* holds what was extracted from each of them.
ParallelTurnsSerialize ==
  (InProgress = 0 /\ now <= SESSION_TIMEOUT_MINUTES) =>
    \A sid \in ConcSessionIds :
      turns[sid] # << >> =>
        /\ sid \in DOMAIN SESSION_STORE
        /\ Len(SESSION_STORE[sid].messages) = Len(turns[sid])
        /\ SESSION_STORE[sid].scam_score = MaxScore(turns[sid])
        /\ \A i \in 1..Len(turns[sid]), c \in Categories :
             BagToSet(ExtractTable[turns[sid][i]][c])
               \subseteq BagToSet(SESSION_STORE[sid].intelligence[c])

\* C17: while no session has been idle for the timeout, at most one call for a
\* session was answered after a callback that succeeded.
OneSuccessfulDispatch ==
  now <= SESSION_TIMEOUT_MINUTES =>
    \A sid \in ConcSessionIds :
      Cardinality({ t \in Threads : /\ response[t].session_id = sid
                                    /\ response[t].dispatch = "200" }) <= 1

\* C18: no call fails, and no call writes to a session object that a sweep has
\* deleted from the registry.
SweepIsSafe ==
  \A t \in Threads :
    /\ response[t].code # 500
    /\ response[t].wrote_detached # "del"
    /\ request[t].pc # "idle" => request[t].wrote_detached # "del"

====
